---- MODULE Spec2Model ----
(***************************************************************************)
(* A model of TernaryStringSet (src/ftss.ts, the class of lines 34-1176):  *)
(* a set of strings kept as a ternary search tree in one flat array of     *)
(* integers, four per node: value (code + end-of-string bit), less          *)
(* pointer, equal pointer, greater pointer.                                 *)
(*                                                                         *)
(* A string is the sequence of its UTF-16 code units, as charCodeAt sees   *)
(* it.  Array index n of the source is position n + 1 of a TLA+ sequence.  *)
(***************************************************************************)
EXTENDS Integers, Sequences, FiniteSets, TLC

(***************************************************************************)
(* Bounds of the model.                                                    *)
(***************************************************************************)
\* Number of distinct code units the input strings are drawn from.
NumChars == 2
\* Greatest length of an input string.
MaxLen == 2
\* Greatest number of node blocks the tree array may hold.
MaxNodes == 4
\* Greatest length of a collection passed to addAll and deleteAll.
MaxSeq == 2
\* Greatest length of a string inside such a collection.
MaxElemLen == 1
\* Greatest length of a pattern of the edit-distance search.
MaxPatLen == 3
\* Greatest distance of the distance searches.
MaxDist == 2
\* Greatest number of calls made on a set and its copy.
MaxCopyCalls == 1
\* Number of distinct code units of the strings inserted in bulk.
NumBulkChars == 4
\* Greatest length of a collection inserted in bulk into a new set.
MaxBulk == 4
\* Greatest length of a string added under a lowered node ceiling.
MaxCapLen == 3
\* Greatest length of a string of the sets that are compacted in depth.
MaxDeepLen == 3
\* Greatest number of node blocks of those sets.
MaxDeepNodes == 5
\* Number of distinct code units of the sets with wider sibling levels.
NumWideChars == 3

(***************************************************************************)
(* Constants of the class.                                                 *)
(***************************************************************************)
\* ~(1 << 31)
NUL == 2147483647
NODE_CEILING == NUL - 3
\* 1 << 21
EOS == 2097152
CP_MASK == EOS - 1
\* 0x10000
CP_MIN_SURROGATE == 65536

\* The null reference, as a string argument or a collection element.
Null == <<-1>>
\* The null reference, as a collection argument.
NullArray == << <<-2>> >>

(***************************************************************************)
(* Bit operations on node values (values are below 2^22, not negative).    *)
(***************************************************************************)
\* v & CP_MASK
MaskCp(v) == v % (CP_MASK + 1)
\* (v & EOS) === EOS
HasEos(v) == (v \div EOS) % 2 = 1
\* v | EOS
SetEos(v) == IF HasEos(v) THEN v ELSE v + EOS

\* s.charCodeAt(i)
charCodeAt(s, i) == s[i + 1]
\* tree[i], for an index inside the array
At(tree, i) == tree[i + 1]

(***************************************************************************)
(* A set object: its four fields.                                          *)
(***************************************************************************)
MkSet(t, e, c, n) == [tree |-> t, hasEmpty |-> e, compact |-> c, size |-> n]

\* clear(): the fields of a set with nothing in it
clear == MkSet(<<>>, FALSE, FALSE, 0)

\* What a call hands back: the object after it, the returned value (FALSE
\* for a method that returns nothing) and whether it threw.
Result(S, r, e) == [set |-> S, ret |-> r, err |-> e]

(***************************************************************************)
(* Lookup.                                                                 *)
(***************************************************************************)
RECURSIVE _has(_, _, _, _, _)
_has(tree, node, s, i, c) ==
    IF node >= Len(tree) THEN FALSE
    ELSE LET treeChar == MaskCp(At(tree, node))
         IN  IF c < treeChar THEN _has(tree, At(tree, node + 1), s, i, c)
             ELSE IF c > treeChar THEN _has(tree, At(tree, node + 3), s, i, c)
             ELSE LET i2 == i + (IF c >= CP_MIN_SURROGATE THEN 2 ELSE 1)
                  IN  IF i2 >= Len(s) THEN HasEos(At(tree, node))
                      ELSE _has(tree, At(tree, node + 2), s, i2, charCodeAt(s, i2))

\* has(s), for a string that is not null
has(S, s) ==
    IF Len(s) = 0 THEN S.hasEmpty
    ELSE _has(S.tree, 0, s, 0, charCodeAt(s, 0))

(***************************************************************************)
(* In-order traversal: the sequence of prefixes handed to visitFn.         *)
(***************************************************************************)
RECURSIVE visitCodePoints(_, _, _)
\* A traversal that visits the equal branch before the node itself
visitCodePoints_EqualFirst(tree, node, prefix) ==
    IF node >= Len(tree) THEN <<>>
    ELSE LET p == Append(prefix, MaskCp(At(tree, node)))
         IN  visitCodePoints(tree, At(tree, node + 1), prefix)
             \o visitCodePoints(tree, At(tree, node + 2), p)
             \o (IF HasEos(At(tree, node)) THEN <<p>> ELSE <<>>)
             \o visitCodePoints(tree, At(tree, node + 3), prefix)

visitCodePoints(tree, node, prefix) ==
    IF node >= Len(tree) THEN <<>>
    ELSE LET p == Append(prefix, MaskCp(At(tree, node)))
         IN  visitCodePoints(tree, At(tree, node + 1), prefix)
             \o (IF HasEos(At(tree, node)) THEN <<p>> ELSE <<>>)
             \o visitCodePoints(tree, At(tree, node + 2), p)
             \o visitCodePoints(tree, At(tree, node + 3), prefix)

\* String.fromCharCode(c) for each c: the code unit c modulo 2^16
fromCodePoints(s) == [k \in 1..Len(s) |-> s[k] % 65536]

toArray(S) ==
    LET v == visitCodePoints(S.tree, 0, <<>>)
    IN  (IF S.hasEmpty THEN << <<>> >> ELSE <<>>)
        \o [k \in 1..Len(v) |-> fromCodePoints(v[k])]

\* forEach(callbackFn): the sequence of values the callback is called with
forEach(S) ==
    LET v == visitCodePoints(S.tree, 0, <<>>)
    IN  (IF S.hasEmpty THEN << <<>> >> ELSE <<>>)
        \o [k \in 1..Len(v) |-> fromCodePoints(v[k])]

(***************************************************************************)
(* Insertion.  _add returns the node index it was called for (or created), *)
(* with the array and the size as the call left them; when the call        *)
(* throws, the assignments of the callers above it do not happen.          *)
(***************************************************************************)
RECURSIVE _add(_, _, _, _, _, _)
\* _add() that takes the greater link for a smaller code and the less link
\* for a greater one
_add_Mirrored(tree0, size0, node0, s, i, c) ==
    LET fresh == node0 >= Len(tree0)
        node == IF fresh THEN Len(tree0) ELSE node0
        tree == IF fresh THEN tree0 \o <<c, NUL, NUL, NUL>> ELSE tree0
        treeChar == MaskCp(At(tree, node))
        k == IF c < treeChar THEN 3 ELSE IF c > treeChar THEN 1 ELSE 2
    IN  IF k = 2 /\ i + 1 >= Len(s)
        THEN [tree |-> [tree EXCEPT ![node + 1] = SetEos(@)],
              size |-> IF HasEos(At(tree, node)) THEN size0 ELSE size0 + 1,
              node |-> node, err |-> FALSE]
        ELSE LET r == IF k = 2
                      THEN _add(tree, size0, At(tree, node + 2), s, i + 1,
                                charCodeAt(s, i + 1))
                      ELSE _add(tree, size0, At(tree, node + k), s, i, c)
             IN  [r EXCEPT !.tree = [r.tree EXCEPT ![node + k + 1] = r.node],
                           !.node = node]

\* _add() that counts a string without looking at the flag of its last node
_add_Recount(tree0, size0, node0, s, i, c) ==
    LET fresh == node0 >= Len(tree0)
        node == IF fresh THEN Len(tree0) ELSE node0
        tree == IF fresh THEN tree0 \o <<c, NUL, NUL, NUL>> ELSE tree0
        treeChar == MaskCp(At(tree, node))
        k == IF c < treeChar THEN 1 ELSE IF c > treeChar THEN 3 ELSE 2
    IN  IF k = 2 /\ i + 1 >= Len(s)
        THEN [tree |-> [tree EXCEPT ![node + 1] = SetEos(@)],
              size |-> size0 + 1, node |-> node, err |-> FALSE]
        ELSE LET r == IF k = 2
                      THEN _add(tree, size0, At(tree, node + 2), s, i + 1,
                                charCodeAt(s, i + 1))
                      ELSE _add(tree, size0, At(tree, node + k), s, i, c)
             IN  [r EXCEPT !.tree = [r.tree EXCEPT ![node + k + 1] = r.node],
                           !.node = node]

_add(tree0, size0, node0, s, i, c) ==
    LET fresh == node0 >= Len(tree0)
        node == IF fresh THEN Len(tree0) ELSE node0
    IN  IF fresh /\ node >= NODE_CEILING
        THEN [tree |-> tree0, size |-> size0, node |-> node, err |-> TRUE]
        ELSE
        LET tree == IF fresh THEN tree0 \o <<c, NUL, NUL, NUL>> ELSE tree0
            treeChar == MaskCp(At(tree, node))
        IN  IF c < treeChar THEN
                LET r == _add(tree, size0, At(tree, node + 1), s, i, c)
                IN  IF r.err THEN r
                    ELSE [r EXCEPT !.tree = [r.tree EXCEPT ![node + 2] = r.node],
                                   !.node = node]
            ELSE IF c > treeChar THEN
                LET r == _add(tree, size0, At(tree, node + 3), s, i, c)
                IN  IF r.err THEN r
                    ELSE [r EXCEPT !.tree = [r.tree EXCEPT ![node + 4] = r.node],
                                   !.node = node]
            ELSE
                LET i2 == i + (IF c >= CP_MIN_SURROGATE THEN 2 ELSE 1)
                IN  IF i2 >= Len(s) THEN
                        IF ~HasEos(At(tree, node))
                        THEN [tree |-> [tree EXCEPT ![node + 1] = SetEos(@)],
                              size |-> size0 + 1, node |-> node, err |-> FALSE]
                        ELSE [tree |-> tree, size |-> size0, node |-> node, err |-> FALSE]
                    ELSE
                        LET r == _add(tree, size0, At(tree, node + 2), s, i2,
                                      charCodeAt(s, i2))
                        IN  IF r.err THEN r
                            ELSE [r EXCEPT !.tree = [r.tree EXCEPT ![node + 3] = r.node],
                                           !.node = node]

\* add, addAll, the constructor, balance and decompact call each other:
\* add rebuilds a compacted set by constructing a new one with addAll.
RECURSIVE add(_, _)
RECURSIVE addAll(_, _, _, _)
RECURSIVE NewFromArray(_)
RECURSIVE balance(_)
RECURSIVE decompact(_)

RECURSIVE _addAll(_, _, _, _)
\* The recursive call of _addAll on [from, to), after a statement that
\* handed back r: a throw in that statement goes up to the caller instead.
AddAllNext(r, strings, from, to) ==
    IF r.err THEN r ELSE _addAll(r.set, strings, from, to)

\* _addAll() that adds the first string of the range, not the middle one
_addAll_FirstFirst(S, strings, start, end0) ==
    LET end == end0 - 1
        mid == start
    IN  IF end < start THEN Result(S, FALSE, FALSE)
        ELSE AddAllNext(AddAllNext(add(S, strings[mid + 1]), strings, start, mid),
                        strings, mid + 1, end + 1)

\* _addAll() whose right half stops one element early
_addAll_ShortRight(S, strings, start, end0) ==
    LET end == end0 - 1
        mid == start + ((end - start) \div 2)
    IN  IF end < start THEN Result(S, FALSE, FALSE)
        ELSE AddAllNext(AddAllNext(add(S, strings[mid + 1]), strings, start, mid),
                        strings, mid + 1, end)

_addAll(S, strings, start, end0) ==
    LET end == end0 - 1
        mid == start + ((end - start) \div 2)
    IN  IF end < start THEN Result(S, FALSE, FALSE)
        ELSE AddAllNext(AddAllNext(add(S, strings[mid + 1]), strings, start, mid),
                        strings, mid + 1, end + 1)

\* addAll(strings, start, end) with integer start; endArg is <<>> when the
\* argument is left out (null) and <<end>> when it is given.
addAll(S, strings, start, endArg) ==
    IF strings = NullArray THEN Result(S, FALSE, TRUE)
    ELSE LET len == Len(strings)
             end == IF endArg = <<>> THEN len ELSE endArg[1]
         IN  IF start < 0 \/ start > len THEN Result(S, FALSE, TRUE)
             ELSE IF end < 0 \/ end > len THEN Result(S, FALSE, TRUE)
             ELSE IF start < end THEN _addAll(S, strings, start, end)
             ELSE Result(S, FALSE, FALSE)

\* new TernaryStringSet(source) for an array source
NewFromArray(source) == addAll(clear, source, 0, <<>>)

\* array.slice() that hands back the array itself
slice_SameArray(array) == [elems |-> array, fresh |-> FALSE]

\* array.slice(): a new array (fresh) with the elements of array
slice(array) == [elems |-> array, fresh |-> TRUE]

\* new TernaryStringSet(source) for a set source: the fields of the new
\* object, and whether its tree array is the very array of the source
NewFromSet(source) ==
    [set |-> MkSet(slice(source.tree).elems, source.hasEmpty, source.compact,
                   source.size),
     shared |-> ~slice(source.tree).fresh]

(***************************************************************************)
(* Numbers that need not be integers.  A finite number is kept as twice    *)
(* its value, so that the halves (0.5, 1.5, ...) can be told from the      *)
(* integers; NaN is a number of its own kind, and so are Infinity and      *)
(* -Infinity, told apart by the sign of twice.                             *)
(***************************************************************************)
Num(t) == [kind |-> "finite", twice |-> t]

NaN == [kind |-> "NaN", twice |-> 0]

Infinity == [kind |-> "infinite", twice |-> 1]

NegInfinity == [kind |-> "infinite", twice |-> -1]

\* Math.trunc(x): the integer part of x, toward zero; NaN and the
\* infinities stay as they are
Math_trunc(x) ==
    IF x.kind # "finite" THEN x
    ELSE IF x.twice >= 0 THEN Num(2 * (x.twice \div 2))
    ELSE Num(0 - 2 * ((0 - x.twice) \div 2))

\* x !== y for two numbers: NaN differs from every number, itself included
StrictNotEqual(x, y) == x.kind = "NaN" \/ y.kind = "NaN" \/ x # y

\* The integer a number is, for a finite number that passed the integer
\* checks
IntOf(x) == x.twice \div 2

\* addAll() that takes the integer part of start and end without a check
addAllAny_Trunc(S, strings, start, endArg) ==
    IF strings = NullArray THEN Result(S, FALSE, TRUE)
    ELSE addAll(S, strings, IntOf(Math_trunc(start)),
                IF endArg = <<>> THEN <<>> ELSE <<IntOf(Math_trunc(endArg[1]))>>)

\* addAll(strings, start, end) for any numbers start and end: the checks
\* that they are integers, then the rest of addAll on the integers.
\* Infinity and -Infinity equal their integer part, so they pass the integer
\* checks, and the range checks throw for them: start < 0 || start > len
\* holds for either, whatever len is, and so for end.
addAllAny(S, strings, start, endArg) ==
    IF strings = NullArray THEN Result(S, FALSE, TRUE)
    ELSE IF StrictNotEqual(start, Math_trunc(start)) THEN Result(S, FALSE, TRUE)
    ELSE IF endArg # <<>> /\ StrictNotEqual(endArg[1], Math_trunc(endArg[1]))
         THEN Result(S, FALSE, TRUE)
    ELSE IF start.kind = "infinite" THEN Result(S, FALSE, TRUE)
    ELSE IF endArg # <<>> /\ endArg[1].kind = "infinite"
         THEN Result(S, FALSE, TRUE)
    ELSE addAll(S, strings, IntOf(start),
                IF endArg = <<>> THEN <<>> ELSE <<IntOf(endArg[1])>>)

\* balance() that leaves the compacted flag as it was
balance_KeepFlag(S) ==
    Result([S EXCEPT !.tree = NewFromArray(toArray(S)).set.tree], FALSE, FALSE)

\* this._tree = r._tree; this._compact = false, for the set r that the
\* constructor built; nothing is assigned when the constructor threw.
TakeTree(S, r) ==
    IF r.err THEN Result(S, FALSE, TRUE)
    ELSE Result([S EXCEPT !.tree = r.set.tree, !.compact = FALSE], FALSE, FALSE)

balance(S) == TakeTree(S, NewFromArray(toArray(S)))

\* decompact() that does nothing
decompact_Skip(S) == Result(S, FALSE, FALSE)

decompact(S) ==
    IF S.compact THEN balance(S) ELSE Result(S, FALSE, FALSE)

\* this._add(0, s, 0, s.charCodeAt(0)) on object D
AddFromRoot(D, s) ==
    LET r == _add(D.tree, D.size, 0, s, 0, charCodeAt(s, 0))
    IN  Result([D EXCEPT !.tree = r.tree, !.size = r.size], FALSE, r.err)

\* The same statement after the conditional decompact() that handed back d
AddAfter(d, s) == IF d.err THEN d ELSE AddFromRoot(d.set, s)

\* add() that writes into a compacted tree without rebuilding it
add_Shared(S, s) ==
    IF s = Null THEN Result(S, FALSE, TRUE)
    ELSE IF Len(s) = 0 THEN
        IF ~S.hasEmpty
        THEN Result([S EXCEPT !.hasEmpty = TRUE, !.size = @ + 1], FALSE, FALSE)
        ELSE Result(S, FALSE, FALSE)
    ELSE AddFromRoot(S, s)

\* add() that forgets to count the empty string
add_NoCount(S, s) ==
    IF s = Null THEN Result(S, FALSE, TRUE)
    ELSE IF Len(s) = 0 THEN Result([S EXCEPT !.hasEmpty = TRUE], FALSE, FALSE)
    ELSE AddAfter(IF S.compact /\ ~has(S, s) THEN decompact(S)
                  ELSE Result(S, FALSE, FALSE), s)

add(S, s) ==
    IF s = Null THEN Result(S, FALSE, TRUE)
    ELSE IF Len(s) = 0 THEN
        IF ~S.hasEmpty
        THEN Result([S EXCEPT !.hasEmpty = TRUE, !.size = @ + 1], FALSE, FALSE)
        ELSE Result(S, FALSE, FALSE)
    ELSE AddAfter(IF S.compact /\ ~has(S, s) THEN decompact(S)
                  ELSE Result(S, FALSE, FALSE), s)

(***************************************************************************)
(* Deletion.                                                               *)
(***************************************************************************)
RECURSIVE _delete(_, _, _, _, _, _)
\* _delete() that takes the block out of the array when it is a leaf and
\* the last block
_delete_Prune(tree, size, node, s, i, c) ==
    IF node >= Len(tree) THEN [tree |-> tree, size |-> size, ret |-> FALSE]
    ELSE LET treeChar == MaskCp(At(tree, node))
         IN  IF c < treeChar THEN _delete(tree, size, At(tree, node + 1), s, i, c)
             ELSE IF c > treeChar THEN _delete(tree, size, At(tree, node + 3), s, i, c)
             ELSE IF i + 1 >= Len(s) THEN
                      IF ~HasEos(At(tree, node))
                      THEN [tree |-> tree, size |-> size, ret |-> FALSE]
                      ELSE IF node + 4 = Len(tree) /\ At(tree, node + 1) = NUL
                                /\ At(tree, node + 2) = NUL /\ At(tree, node + 3) = NUL
                      THEN [tree |-> SubSeq(tree, 1, node), size |-> size - 1,
                            ret |-> TRUE]
                      ELSE [tree |-> [tree EXCEPT ![node + 1] = MaskCp(@)],
                            size |-> size - 1, ret |-> TRUE]
                  ELSE _delete(tree, size, At(tree, node + 2), s, i + 1,
                               charCodeAt(s, i + 1))

\* _delete() that clears the flag and forgets to count down
_delete_NoCount(tree, size, node, s, i, c) ==
    IF node >= Len(tree) THEN [tree |-> tree, size |-> size, ret |-> FALSE]
    ELSE LET treeChar == MaskCp(At(tree, node))
         IN  IF c < treeChar THEN _delete(tree, size, At(tree, node + 1), s, i, c)
             ELSE IF c > treeChar THEN _delete(tree, size, At(tree, node + 3), s, i, c)
             ELSE IF i + 1 >= Len(s) THEN
                      [tree |-> [tree EXCEPT ![node + 1] = MaskCp(@)],
                       size |-> size, ret |-> HasEos(At(tree, node))]
                  ELSE _delete(tree, size, At(tree, node + 2), s, i + 1,
                               charCodeAt(s, i + 1))

_delete(tree, size, node, s, i, c) ==
    IF node >= Len(tree) THEN [tree |-> tree, size |-> size, ret |-> FALSE]
    ELSE LET treeChar == MaskCp(At(tree, node))
         IN  IF c < treeChar THEN _delete(tree, size, At(tree, node + 1), s, i, c)
             ELSE IF c > treeChar THEN _delete(tree, size, At(tree, node + 3), s, i, c)
             ELSE LET i2 == i + (IF c > CP_MIN_SURROGATE THEN 2 ELSE 1)
                  IN  IF i2 >= Len(s) THEN
                          LET had == HasEos(At(tree, node))
                          IN  IF had
                              THEN [tree |-> [tree EXCEPT ![node + 1] = MaskCp(@)],
                                    size |-> size - 1, ret |-> TRUE]
                              ELSE [tree |-> tree, size |-> size, ret |-> FALSE]
                      ELSE _delete(tree, size, At(tree, node + 2), s, i2,
                                   charCodeAt(s, i2))

\* return this._delete(0, s, 0, s.charCodeAt(0)) on object D
DeleteFromRoot(D, s) ==
    LET r == _delete(D.tree, D.size, 0, s, 0, charCodeAt(s, 0))
    IN  Result([D EXCEPT !.tree = r.tree, !.size = r.size], r.ret, FALSE)

\* The same statement after the conditional decompact() that handed back d
DeleteAfter(d, s) == IF d.err THEN d ELSE DeleteFromRoot(d.set, s)

\* delete() that writes into a compacted tree without rebuilding it
delete_Shared(S, s) ==
    IF s = Null THEN Result(S, FALSE, TRUE)
    ELSE IF Len(s) = 0 THEN
        IF S.hasEmpty
        THEN Result([S EXCEPT !.hasEmpty = FALSE, !.size = @ - 1], TRUE, FALSE)
        ELSE Result(S, FALSE, FALSE)
    ELSE DeleteFromRoot(S, s)

delete(S, s) ==
    IF s = Null THEN Result(S, FALSE, TRUE)
    ELSE IF Len(s) = 0 THEN
        IF S.hasEmpty
        THEN Result([S EXCEPT !.hasEmpty = FALSE, !.size = @ - 1], TRUE, FALSE)
        ELSE Result(S, FALSE, FALSE)
    ELSE DeleteAfter(IF S.compact /\ has(S, s) THEN decompact(S)
                     ELSE Result(S, FALSE, FALSE), s)

\* The loop of deleteAll over elements[k..], allDeleted so far
RECURSIVE deleteAllFrom(_, _, _, _)
\* allDeleted = this.delete(el) && allDeleted, then the next element; r is
\* what delete(el) handed back, and a throw in it ends the loop.
DeleteAllNext(r, elements, k, allDeleted) ==
    IF r.err THEN r
    ELSE deleteAllFrom(r.set, elements, k + 1, r.ret /\ allDeleted)

deleteAllFrom(S, elements, k, allDeleted) ==
    IF k > Len(elements) THEN Result(S, allDeleted, FALSE)
    ELSE DeleteAllNext(delete(S, elements[k]), elements, k, allDeleted)

deleteAll(S, elements) ==
    IF elements = NullArray THEN Result(S, FALSE, FALSE)
    ELSE deleteAllFrom(S, elements, 1, TRUE)

(***************************************************************************)
(* Compaction.  nodeMap is modelled as the sequence of the keys that have  *)
(* a slot, in the order the slots were given: the key at position j has    *)
(* slot 4 * (j - 1), and nextSlot is 4 * Len(nodeMap).  An index past the  *)
(* end of the array reads undefined four times; that key is Undefined.     *)
(***************************************************************************)
Undefined == <<-1, -1, -1, -1>>

\* A key that leaves the end-of-string bit out of the node value
NodeKey_NoFlag(tree, i) ==
    IF i >= Len(tree) THEN Undefined
    ELSE <<MaskCp(At(tree, i)), At(tree, i + 1), At(tree, i + 2), At(tree, i + 3)>>

NodeKey(tree, i) ==
    IF i >= Len(tree) THEN Undefined
    ELSE <<At(tree, i), At(tree, i + 1), At(tree, i + 2), At(tree, i + 3)>>

mapping(tree, nodeMap, i) ==
    LET key == NodeKey(tree, i)
    IN  IF \E j \in 1..Len(nodeMap) : nodeMap[j] = key
        THEN [nodeMap |-> nodeMap,
              slot |-> 4 * ((CHOOSE j \in 1..Len(nodeMap) : nodeMap[j] = key) - 1)]
        ELSE [nodeMap |-> Append(nodeMap, key), slot |-> 4 * Len(nodeMap)]

\* The first loop of compactionPass, from index i on
RECURSIVE MapNodes(_, _, _)
\* A first loop that gives the slots from the last node to the first
MapNodes_FromEnd(tree, nodeMap, i) ==
    IF i >= Len(tree) THEN nodeMap
    ELSE mapping(tree, MapNodes(tree, nodeMap, i + 4), i).nodeMap

MapNodes(tree, nodeMap, i) ==
    IF i >= Len(tree) THEN nodeMap
    ELSE MapNodes(tree, mapping(tree, nodeMap, i).nodeMap, i + 4)

\* The second loop of compactionPass, from index i on
RECURSIVE RewriteNodes(_, _, _, _)
RewriteNodes(tree, nodeMap, compactTree, i) ==
    IF i >= Len(tree) THEN [tree |-> compactTree, err |-> FALSE]
    ELSE LET m == mapping(tree, nodeMap, i)
         IN  IF m.slot >= Len(compactTree) THEN
                 IF m.slot > Len(compactTree)
                 THEN [tree |-> compactTree, err |-> TRUE]
                 ELSE LET m1 == mapping(tree, m.nodeMap, At(tree, i + 1))
                          m2 == mapping(tree, m1.nodeMap, At(tree, i + 2))
                          m3 == mapping(tree, m2.nodeMap, At(tree, i + 3))
                      IN  RewriteNodes(tree, m3.nodeMap,
                              compactTree \o <<At(tree, i), m1.slot, m2.slot, m3.slot>>,
                              i + 4)
             ELSE RewriteNodes(tree, m.nodeMap, compactTree, i + 4)

compactionPass(tree) ==
    LET nodeMap == MapNodes(tree, <<>>, 0)
    IN  IF 4 * Len(nodeMap) = Len(tree) THEN [tree |-> tree, err |-> FALSE]
        ELSE RewriteNodes(tree, nodeMap, <<>>, 0)

\* A loop that stops after its first pass
CompactLoop_OnePass(source) ==
    IF compactionPass(source).err THEN [tree |-> Null, err |-> TRUE]
    ELSE [tree |-> compactionPass(source).tree, err |-> FALSE]

\* The while loop of compact(); _tree is null while it runs
RECURSIVE CompactLoop(_)
CompactLoop(source) ==
    LET p == compactionPass(source)
    IN  IF p.err THEN [tree |-> Null, err |-> TRUE]
        ELSE IF Len(p.tree) = Len(source) THEN [tree |-> p.tree, err |-> FALSE]
        ELSE CompactLoop(p.tree)

\* compact() that does not set the compacted flag
compact_Unmarked(S) ==
    IF S.compact \/ Len(S.tree) = 0 THEN Result(S, FALSE, FALSE)
    ELSE LET r == CompactLoop(S.tree)
         IN  IF r.err THEN Result([S EXCEPT !.tree = Null], FALSE, TRUE)
             ELSE Result([S EXCEPT !.tree = r.tree], FALSE, FALSE)

compact(S) ==
    IF S.compact \/ Len(S.tree) = 0 THEN Result(S, FALSE, FALSE)
    ELSE LET r == CompactLoop(S.tree)
         IN  IF r.err THEN Result([S EXCEPT !.tree = Null], FALSE, TRUE)
             ELSE Result([S EXCEPT !.tree = r.tree, !.compact = TRUE], FALSE, FALSE)

(***************************************************************************)
(* Queries.  A query hands back the array it returns (ret) and whether it  *)
(* threw (err); it assigns no field of the object.                         *)
(***************************************************************************)
Answer(r) == [ret |-> r, err |-> FALSE]

Thrown == [ret |-> <<>>, err |-> TRUE]

\* A query that threw the string msg
ThrownWith(msg) == [ret |-> <<>>, err |-> TRUE, msg |-> msg]

\* has() that answers false for null
hasCall_NullFalse(S, s) == Answer(IF s = Null THEN FALSE ELSE has(S, s))

\* has(s) for any argument: null is refused
hasCall(S, s) == IF s = Null THEN Thrown ELSE Answer(has(S, s))

\* What charCodeAt(i) gives past the end of the string: NaN, which is
\* neither less than, nor equal to, nor greater than any code.
NaNCode == -1

charCodeAtOrNaN(s, i) == IF i < Len(s) THEN s[i + 1] ELSE NaNCode

CodeLess(a, b) == a # NaNCode /\ b # NaNCode /\ a < b

CodeEqual(a, b) == a # NaNCode /\ b # NaNCode /\ a = b

CodeAtLeast(a, b) == a # NaNCode /\ b # NaNCode /\ a >= b

RECURSIVE toCodePointsFrom(_, _)
toCodePointsFrom(s, i) ==
    IF i >= Len(s) THEN <<>>
    ELSE LET cp == charCodeAt(s, i)
         IN  <<cp>> \o toCodePointsFrom(s, i + (IF cp >= CP_MIN_SURROGATE THEN 2 ELSE 1))

toCodePoints(s) == toCodePointsFrom(s, 0)

\* String.fromCharCode(c) for each c
getStringFromCharArray(codes) == [k \in 1..Len(codes) |-> codes[k] % 65536]

RECURSIVE SuffixMatches(_, _, _)
\* for (i = 1; i <= pat.length; ++i) if (s[s.length - i] !== pat[pat.length - i]) return
SuffixMatches(s, pat, i) ==
    IF i > Len(pat) THEN TRUE
    ELSE IF s[Len(s) - i + 1] # pat[Len(pat) - i + 1] THEN FALSE
    ELSE SuffixMatches(s, pat, i + 1)

(***************************************************************************)
(* getArrangementsOf.  availChars is the table of the counts that remain;  *)
(* a code with no entry counts as none left.  The walk hands back the      *)
(* table as it leaves it, with the matches.                                *)
(***************************************************************************)
Avail(availChars, cp) == IF cp \in DOMAIN availChars THEN availChars[cp] ELSE 0

RECURSIVE CountChars(_, _, _)
CountChars(charPattern, i, availChars) ==
    IF i >= Len(charPattern) THEN availChars
    ELSE LET cp == charCodeAt(charPattern, i)
             i2 == i + (IF cp >= CP_MIN_SURROGATE THEN 2 ELSE 1)
         IN  CountChars(charPattern, i2,
                 [c \in DOMAIN availChars \cup {cp} |->
                     IF c = cp THEN Avail(availChars, cp) + 1 ELSE availChars[c]])

RECURSIVE _getArrangementsOf(_, _, _, _, _)
\* The walk without availChars[cp]++ on the way back
_getArrangementsOf_NoRestore(tree, node, availChars, prefix, matches) ==
    IF node >= Len(tree) THEN [avail |-> availChars, matches |-> matches]
    ELSE LET l == _getArrangementsOf(tree, At(tree, node + 1), availChars, prefix, matches)
             cp == MaskCp(At(tree, node))
             p == Append(prefix, cp)
             e == _getArrangementsOf(tree, At(tree, node + 2),
                      [l.avail EXCEPT ![cp] = @ - 1], p,
                      IF HasEos(At(tree, node))
                      THEN Append(l.matches, getStringFromCharArray(p))
                      ELSE l.matches)
             m == IF Avail(l.avail, cp) > 0 THEN e ELSE l
         IN  _getArrangementsOf(tree, At(tree, node + 3), m.avail, prefix, m.matches)

_getArrangementsOf(tree, node, availChars, prefix, matches) ==
    IF node >= Len(tree) THEN [avail |-> availChars, matches |-> matches]
    ELSE LET l == _getArrangementsOf(tree, At(tree, node + 1), availChars, prefix, matches)
             cp == MaskCp(At(tree, node))
             p == Append(prefix, cp)
             e == _getArrangementsOf(tree, At(tree, node + 2),
                      [l.avail EXCEPT ![cp] = @ - 1], p,
                      IF HasEos(At(tree, node))
                      THEN Append(l.matches, getStringFromCharArray(p))
                      ELSE l.matches)
             m == IF Avail(l.avail, cp) > 0
                  THEN [avail |-> [e.avail EXCEPT ![cp] = @ + 1], matches |-> e.matches]
                  ELSE l
         IN  _getArrangementsOf(tree, At(tree, node + 3), m.avail, prefix, m.matches)

\* getArrangementsOf(charPattern); table0 and table are availChars when the
\* walk starts and when it has returned.
getArrangementsOf(S, charPattern) ==
    IF charPattern = Null THEN [ret |-> <<>>, err |-> TRUE, table0 |-> <<>>, table |-> <<>>]
    ELSE LET availChars == CountChars(charPattern, 0, <<>>)
             r == _getArrangementsOf(S.tree, 0, availChars, <<>>,
                                     IF S.hasEmpty THEN << <<>> >> ELSE <<>>)
         IN  [ret |-> r.matches, err |-> FALSE, table0 |-> availChars, table |-> r.avail]

(***************************************************************************)
(* getCompletionsOf and getCompletedBy.                                    *)
(***************************************************************************)
RECURSIVE hasCodePoints(_, _, _, _)
hasCodePoints(tree, node, s, i) ==
    IF node >= Len(tree) THEN (0 - node) - 1
    ELSE LET cp == s[i + 1]
             treeCp == MaskCp(At(tree, node))
         IN  IF cp < treeCp THEN hasCodePoints(tree, At(tree, node + 1), s, i)
             ELSE IF cp > treeCp THEN hasCodePoints(tree, At(tree, node + 3), s, i)
             ELSE IF i + 1 >= Len(s)
                  THEN (IF HasEos(At(tree, node)) THEN node ELSE (0 - node) - 1)
             ELSE hasCodePoints(tree, At(tree, node + 2), s, i + 1)

\* fromCodePoints of each prefix the traversal visits
VisitedStrings(tree, node, prefix) ==
    LET v == visitCodePoints(tree, node, prefix)
    IN  [k \in 1..Len(v) |-> fromCodePoints(v[k])]

\* getCompletionsOf() that looks up the prefix and goes on from the root
getCompletionsOf_FromRoot(S, prefix) ==
    IF prefix = Null THEN Thrown
    ELSE IF Len(prefix) = 0 THEN Answer(toArray(S))
    ELSE Answer((IF has(S, prefix) THEN <<prefix>> ELSE <<>>)
                \o VisitedStrings(S.tree, 0, toCodePoints(prefix)))

getCompletionsOf(S, prefix) ==
    IF prefix = Null THEN Thrown
    ELSE IF Len(prefix) = 0 THEN Answer(toArray(S))
    ELSE LET pat == toCodePoints(prefix)
             found == hasCodePoints(S.tree, 0, pat, 0)
             \* node = -node - 1, written so that no step leaves 32 bits
             node == IF found < 0 THEN 0 - (found + 1) ELSE found
         IN  IF found < 0 /\ node >= Len(S.tree) THEN Answer(<<>>)
             ELSE Answer((IF found < 0 THEN <<>> ELSE <<prefix>>)
                         \o VisitedStrings(S.tree, At(S.tree, node + 2), pat))

\* getCompletedBy() that compares the start of each string with the suffix
getCompletedBy_Prefix(S, suffix) ==
    IF suffix = Null THEN Thrown
    ELSE IF Len(suffix) = 0 THEN Answer(toArray(S))
    ELSE LET pat == toCodePoints(suffix)
             v == visitCodePoints(S.tree, 0, <<>>)
             kept == SelectSeq(v, LAMBDA s : Len(s) >= Len(pat)
                                  /\ SubSeq(s, 1, Len(pat)) = pat)
         IN  Answer([k \in 1..Len(kept) |-> fromCodePoints(kept[k])])

getCompletedBy(S, suffix) ==
    IF suffix = Null THEN Thrown
    ELSE IF Len(suffix) = 0 THEN Answer(toArray(S))
    ELSE LET pat == toCodePoints(suffix)
             v == visitCodePoints(S.tree, 0, <<>>)
             kept == SelectSeq(v, LAMBDA s : Len(s) >= Len(pat)
                                  /\ SuffixMatches(s, pat, 1))
         IN  Answer([k \in 1..Len(kept) |-> fromCodePoints(kept[k])])

(***************************************************************************)
(* getPartialMatchesOf.                                                    *)
(***************************************************************************)
RECURSIVE _getPartialMatchesOf(_, _, _, _, _, _)
\* The walk that takes the don't-care code down the equal branch only
_getPartialMatchesOf_EqualOnly(tree, node, pattern, i, dc, prefix) ==
    IF node >= Len(tree) THEN <<>>
    ELSE LET cp == charCodeAt(pattern, i)
             treeCp == MaskCp(At(tree, node))
             i_ == i + (IF cp >= CP_MIN_SURROGATE THEN 2 ELSE 1)
             p == Append(prefix, treeCp)
         IN  (IF cp < treeCp
              THEN _getPartialMatchesOf(tree, At(tree, node + 1), pattern, i, dc, prefix)
              ELSE <<>>)
             \o (IF cp = treeCp \/ cp = dc
                 THEN IF i_ >= Len(pattern)
                      THEN (IF HasEos(At(tree, node)) THEN <<fromCodePoints(p)>> ELSE <<>>)
                      ELSE _getPartialMatchesOf(tree, At(tree, node + 2), pattern, i_, dc, p)
                 ELSE <<>>)
             \o (IF cp > treeCp
                 THEN _getPartialMatchesOf(tree, At(tree, node + 3), pattern, i, dc, prefix)
                 ELSE <<>>)

_getPartialMatchesOf(tree, node, pattern, i, dc, prefix) ==
    IF node >= Len(tree) THEN <<>>
    ELSE LET cp == charCodeAt(pattern, i)
             treeCp == MaskCp(At(tree, node))
             i_ == i + (IF cp >= CP_MIN_SURROGATE THEN 2 ELSE 1)
             p == Append(prefix, treeCp)
         IN  (IF cp < treeCp \/ cp = dc
              THEN _getPartialMatchesOf(tree, At(tree, node + 1), pattern, i, dc, prefix)
              ELSE <<>>)
             \o (IF cp = treeCp \/ cp = dc
                 THEN IF i_ >= Len(pattern)
                      THEN (IF HasEos(At(tree, node)) THEN <<fromCodePoints(p)>> ELSE <<>>)
                      ELSE _getPartialMatchesOf(tree, At(tree, node + 2), pattern, i_, dc, p)
                 ELSE <<>>)
             \o (IF cp > treeCp \/ cp = dc
                 THEN _getPartialMatchesOf(tree, At(tree, node + 3), pattern, i, dc, prefix)
                 ELSE <<>>)

\* The code of "."
Dot == 46

\* getPartialMatchesOf(pattern, dontCareChar); a null dontCareChar is "."
getPartialMatchesOf(S, pattern, dontCareChar) ==
    IF pattern = Null THEN Thrown
    ELSE LET dcs == IF dontCareChar = Null THEN <<Dot>> ELSE dontCareChar
         IN  IF Len(dcs) = 0 THEN Thrown
             ELSE IF Len(pattern) = 0
                  THEN Answer(IF S.hasEmpty THEN << <<>> >> ELSE <<>>)
             ELSE Answer(_getPartialMatchesOf(S.tree, 0, pattern, 0,
                                              charCodeAt(dcs, 0), <<>>))

(***************************************************************************)
(* Distances.                                                              *)
(***************************************************************************)
\* checkDistance() that rounds a fractional distance up
checkDistance_RoundUp(distance) ==
    IF StrictNotEqual(distance, distance)
    THEN [value |-> 0, err |-> TRUE, msg |-> "Distance is not a number."]
    ELSE IF distance.twice < 0
    THEN [value |-> 0, err |-> TRUE, msg |-> "Distance must be non-negative."]
    ELSE [value |-> IF distance.kind = "infinite" THEN NUL
                    ELSE (distance.twice + 1) \div 2,
          err |-> FALSE, msg |-> ""]

\* checkDistance(distance): the distance to search with, or the string
\* thrown.  Math.min(Math.trunc(distance), NUL) is NUL for Infinity.
checkDistance(distance) ==
    IF StrictNotEqual(distance, distance)
    THEN [value |-> 0, err |-> TRUE, msg |-> "Distance is not a number."]
    ELSE IF distance.twice < 0
    THEN [value |-> 0, err |-> TRUE, msg |-> "Distance must be non-negative."]
    ELSE [value |-> IF distance.kind = "infinite" THEN NUL
                    ELSE IF IntOf(Math_trunc(distance)) < NUL
                    THEN IntOf(Math_trunc(distance)) ELSE NUL,
          err |-> FALSE, msg |-> ""]

RECURSIVE _getWithinHammingDistanceOf(_, _, _, _, _, _)
\* The walk that charges a difference at the last position twice
_getWithinHammingDistanceOf_Strict(tree, node, pat, i, dist, prefix) ==
    IF node >= Len(tree) \/ dist < 0 THEN <<>>
    ELSE LET cp == charCodeAtOrNaN(pat, i)
             treeCp == MaskCp(At(tree, node))
             p == Append(prefix, treeCp)
             i_ == i + (IF CodeAtLeast(cp, CP_MIN_SURROGATE) THEN 2 ELSE 1)
             dist_ == dist - (IF CodeEqual(cp, treeCp) THEN 0 ELSE 1)
         IN  (IF CodeLess(cp, treeCp) \/ dist > 0
              THEN _getWithinHammingDistanceOf(tree, At(tree, node + 1), pat, i, dist, prefix)
              ELSE <<>>)
             \o (IF HasEos(At(tree, node)) /\ Len(pat) = Len(p)
                 THEN (IF CodeEqual(cp, treeCp) THEN <<fromCodePoints(p)>> ELSE <<>>)
                 ELSE _getWithinHammingDistanceOf(tree, At(tree, node + 2), pat, i_, dist_, p))
             \o (IF CodeLess(treeCp, cp) \/ dist > 0
                 THEN _getWithinHammingDistanceOf(tree, At(tree, node + 3), pat, i, dist, prefix)
                 ELSE <<>>)

_getWithinHammingDistanceOf(tree, node, pat, i, dist, prefix) ==
    IF node >= Len(tree) \/ dist < 0 THEN <<>>
    ELSE LET cp == charCodeAtOrNaN(pat, i)
             treeCp == MaskCp(At(tree, node))
             p == Append(prefix, treeCp)
             i_ == i + (IF CodeAtLeast(cp, CP_MIN_SURROGATE) THEN 2 ELSE 1)
             dist_ == dist - (IF CodeEqual(cp, treeCp) THEN 0 ELSE 1)
         IN  (IF CodeLess(cp, treeCp) \/ dist > 0
              THEN _getWithinHammingDistanceOf(tree, At(tree, node + 1), pat, i, dist, prefix)
              ELSE <<>>)
             \o (IF HasEos(At(tree, node)) /\ Len(pat) = Len(p)
                 THEN (IF dist > 0 \/ CodeEqual(cp, treeCp)
                       THEN <<fromCodePoints(p)>> ELSE <<>>)
                 ELSE _getWithinHammingDistanceOf(tree, At(tree, node + 2), pat, i_, dist_, p))
             \o (IF CodeLess(treeCp, cp) \/ dist > 0
                 THEN _getWithinHammingDistanceOf(tree, At(tree, node + 3), pat, i, dist, prefix)
                 ELSE <<>>)

\* The rest of getWithinHammingDistanceOf for the checked distance d
HammingSearch(S, pattern, d) ==
    IF d < 1 \/ Len(pattern) = 0
    THEN Answer(IF has(S, pattern) THEN <<pattern>> ELSE <<>>)
    ELSE IF d >= Len(pattern)
    THEN LET v == visitCodePoints(S.tree, 0, <<>>)
             kept == SelectSeq(v, LAMBDA prefix : Len(prefix) = Len(pattern))
         IN  Answer([k \in 1..Len(kept) |-> fromCodePoints(kept[k])])
    ELSE Answer(_getWithinHammingDistanceOf(S.tree, 0, pattern, 0, d, <<>>))

getWithinHammingDistanceOf(S, pattern, distance) ==
    IF pattern = Null THEN ThrownWith("Null pattern.")
    ELSE IF checkDistance(distance).err THEN ThrownWith(checkDistance(distance).msg)
    ELSE HammingSearch(S, pattern, checkDistance(distance).value)

(***************************************************************************)
(* getWithinEditDistanceOf.  The results and the patterns are sets of      *)
(* their own; out is such a set with whether a call on it threw, and once  *)
(* one did the search is over.                                             *)
(***************************************************************************)
\* addCodePoints(node, s, i) on the array and size given: the code of _add
\* with the code taken from the array s instead of a string
addCodePoints(tree, size, node, s, i) == _add(tree, size, node, s, i, s[i + 1])

\* out.addCodePoints(0, s, 0)
AddCodes(out, s) ==
    IF out.err THEN out
    ELSE LET r == addCodePoints(out.set.tree, out.set.size, 0, s, 0)
         IN  Result([out.set EXCEPT !.tree = r.tree, !.size = r.size], FALSE, r.err)

\* i + dist >= pat.length is written dist >= pat.length - i, which is the
\* same for integers and stays within the integers of the model when dist
\* is NUL.
RECURSIVE _getWithinEditDistanceOf(_, _, _, _, _, _, _)
\* The search that does not try the tree's code in place of the pattern's
_getWithinEditDistanceOf_NoSubstitute(tree, node, pat, i, dist, prefix, out) ==
    IF node >= Len(tree) \/ dist < 0 \/ out.err THEN out
    ELSE
    LET treeCp == MaskCp(At(tree, node))
        eos == HasEos(At(tree, node))
        p == Append(prefix, treeCp)
    IN  IF i < Len(pat) THEN
            LET cp == pat[i + 1]
                i_ == i + 1
                dist_ == dist - 1
                o1 == IF cp = treeCp THEN
                          _getWithinEditDistanceOf(tree, At(tree, node + 2), pat, i_, dist, p,
                              IF eos /\ dist >= Len(pat) - i_ THEN AddCodes(out, p) ELSE out)
                      ELSE IF dist > 0 THEN
                          _getWithinEditDistanceOf(tree, At(tree, node + 2), pat, i, dist_, p,
                              IF eos /\ dist >= Len(pat) - i THEN AddCodes(out, p) ELSE out)
                      ELSE out
                o2 == IF cp < treeCp \/ dist > 0
                      THEN _getWithinEditDistanceOf(tree, At(tree, node + 1), pat, i, dist, prefix, o1)
                      ELSE o1
            IN  IF cp > treeCp \/ dist > 0
                THEN _getWithinEditDistanceOf(tree, At(tree, node + 3), pat, i, dist, prefix, o2)
                ELSE o2
        ELSE IF dist > 0 THEN
            _getWithinEditDistanceOf(tree, At(tree, node + 3), pat, i, dist, prefix,
                _getWithinEditDistanceOf(tree, At(tree, node + 1), pat, i, dist, prefix,
                    _getWithinEditDistanceOf(tree, At(tree, node + 2), pat, i, dist - 1, p,
                        IF eos THEN AddCodes(out, p) ELSE out)))
        ELSE out

_getWithinEditDistanceOf(tree, node, pat, i, dist, prefix, out) ==
    IF node >= Len(tree) \/ dist < 0 \/ out.err THEN out
    ELSE
    LET treeCp == MaskCp(At(tree, node))
        eos == HasEos(At(tree, node))
        p == Append(prefix, treeCp)
    IN  IF i < Len(pat) THEN
            LET cp == pat[i + 1]
                i_ == i + 1
                dist_ == dist - 1
                o1 == IF cp = treeCp THEN
                          \* the code matches: on to the next, no edit used
                          _getWithinEditDistanceOf(tree, At(tree, node + 2), pat, i_, dist, p,
                              IF eos /\ dist >= Len(pat) - i_ THEN AddCodes(out, p) ELSE out)
                      ELSE IF dist > 0 THEN
                          \* insert the tree's code, then substitute it
                          _getWithinEditDistanceOf(tree, At(tree, node + 2), pat, i_, dist_, p,
                              _getWithinEditDistanceOf(tree, At(tree, node + 2), pat, i, dist_, p,
                                  IF eos /\ dist >= Len(pat) - i THEN AddCodes(out, p) ELSE out))
                      ELSE out
                o2 == IF cp < treeCp \/ dist > 0
                      THEN _getWithinEditDistanceOf(tree, At(tree, node + 1), pat, i, dist, prefix, o1)
                      ELSE o1
            IN  IF cp > treeCp \/ dist > 0
                THEN _getWithinEditDistanceOf(tree, At(tree, node + 3), pat, i, dist, prefix, o2)
                ELSE o2
        ELSE IF dist > 0 THEN
            _getWithinEditDistanceOf(tree, At(tree, node + 3), pat, i, dist, prefix,
                _getWithinEditDistanceOf(tree, At(tree, node + 1), pat, i, dist, prefix,
                    _getWithinEditDistanceOf(tree, At(tree, node + 2), pat, i, dist - 1, p,
                        IF eos THEN AddCodes(out, p) ELSE out)))
        ELSE out

\* cp with the code at index i (from 0) taken out
Delete1(cp, i) == SubSeq(cp, 1, i) \o SubSeq(cp, i + 2, Len(cp))

\* for (i = 0; i < cp.length; ++i) reducedPatterns.addCodePoints(0, delete1, 0)
RECURSIVE AddReduced(_, _, _)
AddReduced(reducedPatterns, cp, i) ==
    IF i >= Len(cp) THEN reducedPatterns
    ELSE AddReduced(AddCodes(reducedPatterns, Delete1(cp, i)), cp, i + 1)

\* What the callback of patterns.visitCodePoints does to reducedPatterns
\* for the pattern cp
Reduce(reducedPatterns, cp, d) ==
    IF d > 0 /\ Len(cp) > 0
    THEN IF Len(cp) = 1
         THEN [reducedPatterns EXCEPT !.set.hasEmpty = TRUE]
         ELSE AddReduced(reducedPatterns, cp, 0)
    ELSE reducedPatterns

\* patterns.visitCodePoints(0, [], callback): v is the sequence of the
\* patterns visited and k the next to visit; the callback searches for the
\* pattern and puts its reductions in reducedPatterns.
RECURSIVE VisitPatterns(_, _, _, _, _, _)
VisitPatterns(tree, v, k, d, results, reducedPatterns) ==
    IF k > Len(v) THEN [results |-> results, reducedPatterns |-> reducedPatterns]
    ELSE VisitPatterns(tree, v, k + 1, d,
             _getWithinEditDistanceOf(tree, 0, v[k], 0, d, <<>>, results),
             Reduce(reducedPatterns, v[k], d))

\* The search for the empty pattern, made when patterns holds it
EmptySearch(tree, patterns, d, results) ==
    IF patterns.hasEmpty
    THEN _getWithinEditDistanceOf(tree, 0, <<>>, 0, d, <<>>, results)
    ELSE results

\* for (d = distance; d >= 0; --d) { ... }
RECURSIVE EditLoop(_, _, _, _)
\* The end of one round of the loop: the second search for the empty
\* pattern, then the next round with the reduced patterns
EditLoopNext(tree, patterns, d, r) ==
    EditLoop(tree, r.reducedPatterns.set, d - 1,
             IF r.reducedPatterns.err THEN Result(r.results.set, FALSE, TRUE)
             ELSE EmptySearch(tree, patterns, d, r.results))

EditLoop(tree, patterns, d, results) ==
    IF d < 0 \/ results.err THEN results
    \* a round with no pattern searches for nothing and leaves no pattern
    \* for the next: the rounds that remain change nothing
    ELSE IF Len(patterns.tree) = 0 /\ ~patterns.hasEmpty THEN results
    ELSE EditLoopNext(tree, patterns, d,
             VisitPatterns(tree, visitCodePoints(patterns.tree, 0, <<>>), 1, d,
                           EmptySearch(tree, patterns, d, results),
                           Result(clear, FALSE, FALSE)))

\* return results.toArray(), or the throw of a call on results
ResultsArray(results) ==
    IF results.err THEN Thrown ELSE Answer(toArray(results.set))

\* The rest of getWithinEditDistanceOf for the checked distance
EditSearch(S, pattern, distance) ==
    IF distance < 1
    THEN Answer(IF has(S, pattern) THEN <<pattern>> ELSE <<>>)
    ELSE ResultsArray(
             EditLoop(S.tree, add(clear, pattern).set, distance,
                      IF S.hasEmpty /\ Len(pattern) <= distance
                      THEN add(clear, <<>>)
                      ELSE Result(clear, FALSE, FALSE)))

getWithinEditDistanceOf(S, pattern, distance) ==
    IF pattern = Null THEN ThrownWith("Null pattern.")
    ELSE IF checkDistance(distance).err THEN ThrownWith(checkDistance(distance).msg)
    ELSE EditSearch(S, pattern, checkDistance(distance).value)

(***************************************************************************)
(* The state machine: one set object and the calls made on it.             *)
(***************************************************************************)
VARIABLES
    _tree,       \* the tree array
    _hasEmpty,   \* whether the empty string is in the set
    _compact,    \* whether the tree has been compacted
    _size,       \* the tracked set size
    pc,          \* the caller: "ready" to make a call, or a call has "returned"
    pre,         \* the caller's record: the object as it was when the call began
    last,        \* the caller's record: the call, its arguments, result and error
    members,     \* history: the strings added and not deleted or cleared since
    other        \* a second set object, made from this one by the constructor

vars == <<_tree, _hasEmpty, _compact, _size, pc, pre, last, members, other>>

\* The object now
This == MkSet(_tree, _hasEmpty, _compact, _size)

\* No second object has been made: made is whether there is one, set its
\* fields, shared whether its tree array is the array of this object, and
\* calls the number of calls made on the two since.
NoOther == [made |-> FALSE, set |-> clear, shared |-> FALSE, calls |-> 0]

\* The code units of the input strings: "a", "b", ...
Chars == 97..(96 + NumChars)

\* The input strings: every string over Chars of length at most MaxLen
Strings == UNION {[1..n -> Chars] : n \in 0..MaxLen}

\* The strings of the input collections
Elements == UNION {[1..n -> Chars] : n \in 0..MaxElemLen}

\* The input collections: every array of at most MaxSeq such strings
Collections == UNION {[1..n -> Elements] : n \in 0..MaxSeq}

\* The elements of strings at the indices i with start <= i < end
RangeOf(strings, start, end) ==
    {strings[k] : k \in {j \in 1..Len(strings) : start < j /\ j <= end}}

\* The caller's record when no call is being looked at
NoCall == [op |-> "none", s |-> <<>>, strings |-> <<>>, start |-> 0,
           end |-> <<>>, ret |-> FALSE, err |-> FALSE]

\* A call of method op that hands back r; m is the member set it should leave.
\* Calls that would grow the array past MaxNodes blocks are left out.
Call(op, s, strings, start, end, r, m) ==
    /\ pc = "ready"
    /\ Len(r.set.tree) <= 4 * MaxNodes
    /\ pc' = "returned"
    /\ _tree' = r.set.tree
    /\ _hasEmpty' = r.set.hasEmpty
    /\ _compact' = r.set.compact
    /\ _size' = r.set.size
    /\ pre' = This
    /\ last' = [op |-> op, s |-> s, strings |-> strings, start |-> start,
                end |-> end, ret |-> r.ret, err |-> r.err]
    /\ members' = m
    /\ UNCHANGED other

Init ==
    /\ _tree = clear.tree
    /\ _hasEmpty = clear.hasEmpty
    /\ _compact = clear.compact
    /\ _size = clear.size
    /\ pc = "returned"
    /\ pre = clear
    /\ last = [NoCall EXCEPT !.op = "new"]
    /\ members = {}
    /\ other = NoOther

Add ==
    \E s \in Strings \cup {Null} :
        Call("add", s, <<>>, 0, <<>>, add(This, s),
             IF s = Null THEN members ELSE members \cup {s})

AddAll ==
    \E strings \in Collections :
        \E start \in 0..Len(strings) :
            \E end \in {<<>>} \cup {<<e>> : e \in 0..Len(strings)} :
                Call("addAll", <<>>, strings, start, end,
                     addAll(This, strings, start, end),
                     members \cup RangeOf(strings, start,
                                          IF end = <<>> THEN Len(strings) ELSE end[1]))

Delete ==
    \E s \in Strings \cup {Null} :
        Call("delete", s, <<>>, 0, <<>>, delete(This, s), members \ {s})

DeleteAll ==
    \E elements \in Collections :
        Call("deleteAll", <<>>, elements, 0, <<>>, deleteAll(This, elements),
             members \ {elements[k] : k \in 1..Len(elements)})

Compact == Call("compact", <<>>, <<>>, 0, <<>>, compact(This), members)

Balance == Call("balance", <<>>, <<>>, 0, <<>>, balance(This), members)

Clear == Call("clear", <<>>, <<>>, 0, <<>>, Result(clear, FALSE, FALSE), {})

\* The caller has looked at the result of its call and is ready for the next.
Resume ==
    /\ pc = "returned"
    /\ pc' = "ready"
    /\ pre' = clear
    /\ last' = NoCall
    /\ UNCHANGED <<_tree, _hasEmpty, _compact, _size, members, other>>

Next ==
    \/ Add
    \/ AddAll
    \/ Delete
    \/ DeleteAll
    \/ Compact
    \/ Balance
    \/ Clear
    \/ Resume

Spec == Init /\ [][Next]_vars

(***************************************************************************)
(* What the claims are stated with.                                        *)
(***************************************************************************)
\* The input strings a set object holds, as has() answers
Members(S) == {t \in Strings : has(S, t)}

\* The number of node blocks of the array whose end-of-string bit is set
EosCount(tree) ==
    Cardinality({n \in 0..((Len(tree) \div 4) - 1) : HasEos(At(tree, 4 * n))})

\* 1 if the empty-string flag of the object is set, else 0
EmptyCount(S) == IF S.hasEmpty THEN 1 ELSE 0

\* A call of method op has returned (normally or by throwing)
Returned(op) == pc = "returned" /\ last.op = op

\* C1: for every non-null string s, after add(s) returns has(s) is true and
\* size has grown by 1 if s was not a member before the call and by 0 if it
\* was; the call does not throw.
C1_AddPost ==
    (Returned("add") /\ last.s # Null) =>
        /\ ~last.err
        /\ has(This, last.s)
        /\ _size = pre.size + (IF has(pre, last.s) THEN 0 ELSE 1)

\* A new string of two codes was added to a compacted set that had members.
C1_Witness ==
    /\ Returned("add") /\ last.s # Null /\ Len(last.s) = 2
    /\ pre.compact /\ pre.size >= 1 /\ ~has(pre, last.s)
    /\ has(This, last.s) /\ _size = pre.size + 1

\* C2: for every non-null string s, delete(s) returns true exactly when s
\* was a member before the call; afterwards has(s) is false and size has
\* dropped by 1 if s was a member and by 0 if it was not.
C2_DeletePost ==
    (Returned("delete") /\ last.s # Null) =>
        /\ ~last.err
        /\ last.ret = has(pre, last.s)
        /\ ~has(This, last.s)
        /\ _size = pre.size - (IF has(pre, last.s) THEN 1 ELSE 0)

\* A member of two codes was deleted from a compacted set.
C2_Witness ==
    /\ Returned("delete") /\ last.s # Null /\ Len(last.s) = 2
    /\ pre.compact /\ has(pre, last.s)
    /\ last.ret /\ ~has(This, last.s) /\ _size = pre.size - 1

\* C3: the tree implements the abstract set: has(t) is true exactly for the
\* strings t added and not deleted or cleared since, and add(s) and
\* delete(s) leave has(t) as it was for every t other than s.
C3_Refinement ==
    /\ \A t \in Strings : has(This, t) <=> t \in members
    /\ (Returned("add") \/ Returned("delete")) =>
           \A t \in Strings \ {last.s} : has(This, t) = has(pre, t)

\* A member was deleted whose proper prefix is not a member, while another
\* member that extends a non-member stays.
C3_Witness ==
    /\ Returned("delete") /\ last.ret /\ Len(last.s) = 2
    /\ SubSeq(last.s, 1, 1) \notin members
    /\ \E t \in members : Len(t) = 2 /\ SubSeq(t, 1, 1) \notin members

\* C4: size is the number of distinct members, which is the length of
\* toArray(); a new set has size 0, and a collection with duplicates counts
\* each distinct string once.
C4_SizeIsCardinality ==
    /\ _size = Cardinality(Members(This))
    /\ _size = Len(toArray(This))
    /\ (last.op = "new" => _size = 0)

\* addAll of a collection that holds one new string twice added one member.
C4_Witness ==
    /\ Returned("addAll") /\ Len(last.strings) = 2
    /\ last.strings[1] = last.strings[2]
    /\ last.start = 0 /\ last.end = <<>>
    /\ ~has(pre, last.strings[1])
    /\ _size = pre.size + 1

\* C5, as amended: while compacted is false, size is the number of node
\* blocks whose end-of-string bit is set, plus 1 if the empty-string flag
\* is set; while compacted is true that number is at most size.
C5_EosCountWhenLoose ==
    /\ ~_compact => _size = EosCount(_tree) + EmptyCount(This)
    /\ _compact => EosCount(_tree) + EmptyCount(This) <= _size

\* A member was deleted from a compacted set in which members shared a node.
C5_Witness ==
    /\ Returned("delete") /\ last.ret
    /\ pre.compact /\ EosCount(pre.tree) + EmptyCount(pre) < pre.size
    /\ ~_compact /\ _size >= 1

\* C5, as claimed: in every state, compacted or not, size is the number of
\* node blocks whose end-of-string bit is set, plus 1 if the empty-string
\* flag is set.
C5_EosCountAlways ==
    _size = EosCount(_tree) + EmptyCount(This)

\* a comes before b in the lexicographic order of code sequences
LexLess(a, b) ==
    \E k \in 1..Len(b) :
        /\ k - 1 <= Len(a)
        /\ \A j \in 1..(k - 1) : a[j] = b[j]
        /\ (k = Len(a) + 1 \/ a[k] < b[k])

\* The elements of a sequence
Range(q) == {q[k] : k \in 1..Len(q)}

\* A leaf block whose end-of-string bit is clear: what a delete leaves
DeadLeaf(tree) ==
    \E n \in 0..((Len(tree) \div 4) - 1) :
        /\ ~HasEos(At(tree, 4 * n))
        /\ At(tree, 4 * n + 1) = NUL
        /\ At(tree, 4 * n + 2) = NUL
        /\ At(tree, 4 * n + 3) = NUL

\* C6: compact() changes no logical content, whatever the content (deleted
\* strings whose nodes are still in the array included): toArray() is the
\* same sequence as before, size is unchanged and has(t) is unchanged for
\* every string t.
C6_CompactKeepsContent ==
    Returned("compact") =>
        /\ ~last.err
        /\ toArray(This) = toArray(pre)
        /\ _size = pre.size
        /\ \A t \in Strings : has(This, t) = has(pre, t)

\* compact() shrank an array that held members and the leaf of a deleted
\* string.
C6_Witness ==
    /\ Returned("compact") /\ _compact
    /\ Len(_tree) < Len(pre.tree)
    /\ DeadLeaf(pre.tree) /\ pre.size >= 1

\* C7: balance() leaves toArray(), has(t) for every t and size unchanged,
\* compacted or not and with or without the empty string, and afterwards
\* compacted is false.
C7_BalanceKeepsContent ==
    Returned("balance") =>
        /\ ~last.err
        /\ toArray(This) = toArray(pre)
        /\ _size = pre.size
        /\ \A t \in Strings : has(This, t) = has(pre, t)
        /\ ~_compact

\* balance() rebuilt a compacted set that holds the empty string and two
\* more members.
C7_Witness ==
    /\ Returned("balance") /\ pre.compact /\ pre.hasEmpty
    /\ pre.size >= 3 /\ _tree # pre.tree /\ ~_compact

\* C8: on a compacted set, add(s) of a non-empty non-member and delete(s) of
\* a non-empty member do not throw: the set is rebuilt first, the mutation
\* is applied to the rebuilt set, and afterwards compacted is false;
\* add(s) of a member and delete(s) of a non-member leave compacted true.
C8_MutationDecompacts ==
    (pc = "returned" /\ pre.compact /\ last.op \in {"add", "delete"}
        /\ last.s # Null /\ Len(last.s) > 0) =>
        /\ (last.op = "add" /\ ~has(pre, last.s)) =>
               /\ ~last.err /\ ~_compact /\ has(This, last.s)
               /\ This = add(balance(pre).set, last.s).set
        /\ (last.op = "delete" /\ has(pre, last.s)) =>
               /\ ~last.err /\ ~_compact /\ ~has(This, last.s)
               /\ This = delete(balance(pre).set, last.s).set
        /\ (last.op = "add" /\ has(pre, last.s)) =>
               /\ ~last.err /\ _compact /\ This = pre
        /\ (last.op = "delete" /\ ~has(pre, last.s)) =>
               /\ ~last.err /\ _compact /\ This = pre

\* A new string was added to a compacted set whose members share a node.
C8_Witness ==
    /\ Returned("add") /\ Len(last.s) > 0 /\ last.s # Null
    /\ pre.compact /\ EosCount(pre.tree) + EmptyCount(pre) < pre.size
    /\ ~has(pre, last.s) /\ ~_compact /\ has(This, last.s)

\* C9: toArray() and forEach enumerate every member exactly once, in
\* strictly ascending lexicographic order of code sequences, the empty
\* string first when it is a member, compacted or not.
C9_SortedEnumeration ==
    LET a == toArray(This)
    IN  /\ forEach(This) = a
        /\ Range(a) = members
        /\ \A k \in 1..(Len(a) - 1) : LexLess(a[k], a[k + 1])
        /\ _hasEmpty => a[1] = <<>>

\* A compacted set holds the empty string, a string and an extension of it,
\* and a string with a greater first code.
C9_Witness ==
    /\ _compact /\ _hasEmpty /\ _size >= 4
    /\ \E t \in members : Len(t) = 1 /\ \E u \in members : Len(u) = 2 /\ u[1] = t[1]
    /\ Len(toArray(This)) = _size

\* The end of the range of an addAll call
EndOf(call) == IF call.end = <<>> THEN Len(call.strings) ELSE call.end[1]

\* C10: for integers 0 <= start <= length and 0 <= end <= length,
\* addAll(strings, start, end) does not throw and makes the members the
\* previous members together with exactly the strings at the indices i with
\* start <= i < end, whatever their order and duplicates; when start >= end
\* it changes nothing.
C10_AddAllRange ==
    Returned("addAll") =>
        /\ ~last.err
        /\ Members(This) = Members(pre) \cup
               {last.strings[i + 1] : i \in {j \in 0..(Len(last.strings) - 1) :
                                              last.start <= j /\ j < EndOf(last)}}
        /\ last.start >= EndOf(last) => This = pre

\* addAll added the second of two distinct strings and not the first.
C10_Witness ==
    /\ Returned("addAll") /\ Len(last.strings) = 2
    /\ last.start = 1 /\ last.end = <<2>>
    /\ last.strings[1] # last.strings[2]
    /\ ~has(pre, last.strings[1]) /\ ~has(pre, last.strings[2])
    /\ ~has(This, last.strings[1]) /\ has(This, last.strings[2])

(***************************************************************************)
(* Calls of the queries.                                                   *)
(***************************************************************************)
\* A call of query op with pattern s, distance dist and don't-care string
\* dc (those it takes) that hands back answer; the object stays as it is.
Query(op, s, dist, dc, answer) ==
    /\ pc = "ready"
    /\ pc' = "returned"
    /\ pre' = This
    /\ last' = [op |-> op, s |-> s, dist |-> dist, dc |-> dc, answer |-> answer]
    /\ UNCHANGED <<_tree, _hasEmpty, _compact, _size, members, other>>

\* The patterns of the distance searches: up to MaxPatLen codes
Patterns == UNION {[1..n -> Chars] : n \in 0..MaxPatLen}

\* The patterns of getPartialMatchesOf: "." may stand at any index
DotPatterns == UNION {[1..n -> Chars \cup {Dot}] : n \in 0..MaxLen}

\* The don't-care strings: left out, empty, ".", and the first input code
DontCares == {Null, <<>>, <<Dot>>, <<97>>}

\* The distances: 0, 1, ...
Distances == {Num(2 * d) : d \in 0..MaxDist}

Has ==
    \E s \in Strings :
        Query("has", s, Num(0), Null, hasCall(This, s))

GetArrangementsOf ==
    \E s \in Strings :
        Query("getArrangementsOf", s, Num(0), Null, getArrangementsOf(This, s))

GetCompletionsOf ==
    \E s \in Strings :
        Query("getCompletionsOf", s, Num(0), Null, getCompletionsOf(This, s))

GetCompletedBy ==
    \E s \in Strings :
        Query("getCompletedBy", s, Num(0), Null, getCompletedBy(This, s))

GetPartialMatchesOf ==
    \E s \in DotPatterns :
        \E dc \in DontCares :
            Query("getPartialMatchesOf", s, Num(0), dc, getPartialMatchesOf(This, s, dc))

GetWithinEditDistanceOf ==
    \E s \in Patterns :
        \E dist \in Distances :
            Query("getWithinEditDistanceOf", s, dist, Null,
                  getWithinEditDistanceOf(This, s, dist))

GetWithinHammingDistanceOf ==
    \E s \in Strings :
        \E dist \in Distances :
            Query("getWithinHammingDistanceOf", s, dist, Null,
                  getWithinHammingDistanceOf(This, s, dist))

\* The calls on one string, compact, balance and clear reach every set that
\* addAll and deleteAll reach; the queries are made on those.
NextQuery ==
    \/ Add
    \/ Delete
    \/ Compact
    \/ Balance
    \/ Clear
    \/ Resume
    \/ Has
    \/ GetArrangementsOf
    \/ GetCompletionsOf
    \/ GetCompletedBy
    \/ GetPartialMatchesOf
    \/ GetWithinEditDistanceOf
    \/ GetWithinHammingDistanceOf

SpecQuery == Init /\ [][NextQuery]_vars

(***************************************************************************)
(* Calls with arguments the methods refuse.                                *)
(***************************************************************************)
\* Numbers that are not an index of strings: -1, 0.5, length + 1, NaN,
\* Infinity and -Infinity
BadNumbers(strings) ==
    {Num(-2), Num(1), Num(2 * Len(strings) + 2), NaN, Infinity, NegInfinity}

\* The collections that hold null at one index at least
CollectionsWithNull ==
    {c \in UNION {[1..n -> Elements \cup {Null}] : n \in 1..MaxSeq} :
        \E k \in 1..Len(c) : c[k] = Null}

\* addAll with a start or an end that is not an index of the collection
AddAllBadIndex ==
    \E strings \in Collections :
        \E start \in {Num(0)} \cup BadNumbers(strings) :
            \E end \in {<<>>} \cup {<<e>> : e \in BadNumbers(strings)} :
                /\ (end = <<>>) # (start = Num(0))
                /\ Call("addAll:numbers", <<>>, strings, start, end,
                        addAllAny(This, strings, start, end),
                        Members(addAllAny(This, strings, start, end).set))

\* addAll and deleteAll with no collection, or with null in the collection
AddAllNull ==
    \E strings \in CollectionsWithNull \cup {NullArray} :
        Call("addAll", <<>>, strings, 0, <<>>, addAll(This, strings, 0, <<>>),
             Members(addAll(This, strings, 0, <<>>).set))

DeleteAllNull ==
    \E elements \in CollectionsWithNull \cup {NullArray} :
        Call("deleteAll", <<>>, elements, 0, <<>>, deleteAll(This, elements),
             Members(deleteAll(This, elements).set))

\* The calls on one string, compact, balance and clear reach every set that
\* addAll and deleteAll reach; the calls the methods refuse are made on those.
\* The queries with null for the pattern
NullQuery ==
    \/ Query("has", Null, Num(0), Null, hasCall(This, Null))
    \/ Query("getArrangementsOf", Null, Num(0), Null, getArrangementsOf(This, Null))
    \/ Query("getCompletionsOf", Null, Num(0), Null, getCompletionsOf(This, Null))
    \/ Query("getCompletedBy", Null, Num(0), Null, getCompletedBy(This, Null))
    \/ Query("getPartialMatchesOf", Null, Num(0), Null,
             getPartialMatchesOf(This, Null, Null))
    \/ Query("getWithinEditDistanceOf", Null, Num(2), Null,
             getWithinEditDistanceOf(This, Null, Num(2)))
    \/ Query("getWithinHammingDistanceOf", Null, Num(2), Null,
             getWithinHammingDistanceOf(This, Null, Num(2)))

NextErr ==
    \/ Add
    \/ Delete
    \/ Compact
    \/ Balance
    \/ Clear
    \/ Resume
    \/ AddAllBadIndex
    \/ AddAllNull
    \/ DeleteAllNull
    \/ NullQuery

SpecErr == Init /\ [][NextErr]_vars

\* x is not an index into a collection of length len, nor len itself
InvalidIndex(x, len) ==
    \/ x.kind # "finite"
    \/ x.twice % 2 = 1
    \/ x.twice < 0
    \/ x.twice > 2 * len

\* C11: addAll throws when start or end is fractional, NaN, negative or
\* greater than the length of the collection, and it does so before any
\* element is added: the tree array, the empty-string flag, the compacted
\* flag and size are as before the call, and so is has(t) for every t.
C11_BadIndexThrowsFirst ==
    (Returned("addAll:numbers")
        /\ (\/ InvalidIndex(last.start, Len(last.strings))
            \/ (last.end # <<>> /\ InvalidIndex(last.end[1], Len(last.strings))))) =>
        /\ last.err
        /\ This = pre
        /\ \A t \in Strings : has(This, t) = has(pre, t)

\* addAll threw for the end 0.5 of a collection of two strings that the set
\* does not hold, and the set still does not hold them.
C11_Witness ==
    /\ Returned("addAll:numbers") /\ last.err
    /\ Len(last.strings) = 2 /\ last.start = Num(0) /\ last.end = <<Num(1)>>
    /\ \A k \in 1..2 : Len(last.strings[k]) > 0 /\ ~has(This, last.strings[k])
    /\ pre.size >= 1 /\ This = pre

\* The methods that change the set
Mutators == {"add", "addAll", "addAll:numbers", "delete", "deleteAll",
             "compact", "balance"}

\* The queries that take a pattern
QueryOps == {"has", "getArrangementsOf", "getCompletionsOf", "getCompletedBy",
             "getPartialMatchesOf", "getWithinEditDistanceOf",
             "getWithinHammingDistanceOf"}

\* C12: every mutating operation either completes or, when it throws,
\* leaves the set exactly as it was before the call: the same tree array,
\* flags and size, and the same answer of has(t) for every t; so with
\* addAll and deleteAll over a collection that holds null after other
\* elements.
C12_AllOrNothing ==
    (pc = "returned" /\ last.op \in Mutators /\ last.err) =>
        /\ This = pre
        /\ \A t \in Strings : has(This, t) = has(pre, t)

\* The last call was made with null for its string, pattern or collection
NullCall ==
    /\ pc = "returned"
    /\ \/ last.op \in {"add", "delete"} /\ last.s = Null
       \/ last.op \in {"addAll", "deleteAll"} /\ last.strings = NullArray
       \/ last.op \in QueryOps /\ last.s = Null

\* The last call threw
Threw == IF last.op \in QueryOps THEN last.answer.err ELSE last.err

\* C13, as claimed: add, addAll, delete, deleteAll, has and the six get
\* queries throw when their string, pattern or collection is null, and
\* leave the set unchanged.
C13_NullAlwaysThrows ==
    NullCall => (Threw /\ This = pre)

\* C13, as amended: add, addAll, delete, has and the six get queries throw
\* when their string, pattern or collection is null; deleteAll(null) does
\* not throw and returns false; all of them leave the set unchanged.
C13_NullThrowsButDeleteAll ==
    NullCall =>
        /\ This = pre
        /\ last.op # "deleteAll" => Threw
        /\ last.op = "deleteAll" => (~last.err /\ last.ret = FALSE)

\* has(null) threw on a set that holds two strings at least.
C13_Witness ==
    /\ NullCall /\ last.op = "has" /\ last.answer.err
    /\ _size >= 2 /\ This = pre

(***************************************************************************)
(* What the claims about the queries are stated with.                      *)
(***************************************************************************)
\* The sequence a is strictly ascending in the order of code sequences
Ascending(a) == \A k \in 1..(Len(a) - 1) : LexLess(a[k], a[k + 1])

\* The least number of insertions, deletions and substitutions of one code
\* that turn the first i codes of a into the first j codes of b
RECURSIVE Levenshtein(_, _, _, _)
Levenshtein(a, b, i, j) ==
    IF i = 0 THEN j
    ELSE IF j = 0 THEN i
    ELSE LET del == Levenshtein(a, b, i - 1, j) + 1
             ins == Levenshtein(a, b, i, j - 1) + 1
             sub == Levenshtein(a, b, i - 1, j - 1) + (IF a[i] = b[j] THEN 0 ELSE 1)
             m == IF del < ins THEN del ELSE ins
         IN  IF sub < m THEN sub ELSE m

EditDistance(a, b) == Levenshtein(a, b, Len(a), Len(b))

\* The number of indices at which two strings of one length differ
Differences(a, b) == Cardinality({k \in 1..Len(a) : a[k] # b[k]})

\* The number of times code c stands in string a
Occurrences(a, c) == Cardinality({k \in 1..Len(a) : a[k] = c})

\* p is the start of t; x is the end of t
StartsWith(t, p) == Len(p) <= Len(t) /\ SubSeq(t, 1, Len(p)) = p

EndsWith(t, x) == Len(x) <= Len(t) /\ SubSeq(t, Len(t) - Len(x) + 1, Len(t)) = x

\* The query op has returned without a throw
Answered(op) == Returned(op) /\ ~last.answer.err

\* C14: for every pattern p and integer distance d >= 0,
\* getWithinEditDistanceOf(p, d) does not throw and returns exactly the
\* members whose Levenshtein distance to p is at most d, each once and in
\* ascending order; for d = 0 the result is [p] if has(p) and [] if not;
\* the empty string is returned exactly when it is a member and the
\* length of p is at most d.
C14_EditDistance ==
    Returned("getWithinEditDistanceOf") =>
        LET p == last.s
            d == IntOf(last.dist)
            a == last.answer.ret
        IN  /\ ~last.answer.err
            /\ Range(a) = {t \in Members(This) : EditDistance(t, p) <= d}
            /\ Ascending(a)
            /\ d = 0 => a = (IF has(This, p) THEN <<p>> ELSE <<>>)
            /\ (<<>> \in Range(a)) <=> (_hasEmpty /\ Len(p) <= d)

\* The search at distance 1 for a pattern of two codes found a member one
\* code shorter and a member that differs in one code, and left a member
\* out.
C14_Witness ==
    /\ Answered("getWithinEditDistanceOf")
    /\ Len(last.s) = 2 /\ IntOf(last.dist) = 1
    /\ \E t \in Range(last.answer.ret) : Len(t) = 1
    /\ \E t \in Range(last.answer.ret) : Len(t) = 2 /\ t # last.s
    /\ \E t \in Members(This) : t \notin Range(last.answer.ret)

\* C15: for every pattern p and integer distance d >= 0,
\* getWithinHammingDistanceOf(p, d) does not throw and returns exactly the
\* members of the length of p that differ from p at d indices at most, in
\* ascending order; when d is at least the length of p these are all the
\* members of that length.
C15_HammingDistance ==
    Returned("getWithinHammingDistanceOf") =>
        LET p == last.s
            d == IntOf(last.dist)
            a == last.answer.ret
        IN  /\ ~last.answer.err
            /\ Range(a) = {t \in Members(This) :
                               Len(t) = Len(p) /\ Differences(t, p) <= d}
            /\ Ascending(a)
            /\ d >= Len(p) => Range(a) = {t \in Members(This) : Len(t) = Len(p)}

\* The walk at distance 1 for a pattern of two codes found a member that
\* differs in its last code, and left out a member of that length and a
\* shorter member.
C15_Witness ==
    /\ Answered("getWithinHammingDistanceOf")
    /\ Len(last.s) = 2 /\ IntOf(last.dist) = 1
    /\ \E t \in Range(last.answer.ret) : t[1] = last.s[1] /\ t[2] # last.s[2]
    /\ \E t \in Members(This) : Len(t) = 2 /\ t \notin Range(last.answer.ret)
    /\ \E t \in Members(This) : Len(t) = 1

\* C16: for every prefix p, compacted or not, getCompletionsOf(p) returns
\* exactly the members that start with p, each once: p first when it is a
\* member, then the others in ascending order; getCompletionsOf("") is
\* toArray().
C16_Completions ==
    Returned("getCompletionsOf") =>
        LET p == last.s
            a == last.answer.ret
        IN  /\ ~last.answer.err
            /\ Range(a) = {t \in Members(This) : StartsWith(t, p)}
            /\ Len(a) = Cardinality(Range(a))
            /\ has(This, p) => a[1] = p
            /\ Ascending(a)
            /\ p = <<>> => a = toArray(This)

\* On a compacted set the completions of a member of one code are that
\* member and a longer one, and another member does not start with it.
C16_Witness ==
    /\ Answered("getCompletionsOf") /\ _compact
    /\ Len(last.s) = 1 /\ Len(last.answer.ret) >= 2
    /\ last.answer.ret[1] = last.s
    /\ \E t \in Members(This) : t # <<>> /\ t \notin Range(last.answer.ret)

\* C17: for every suffix x, getCompletedBy(x) returns exactly the members
\* that end with x, x itself with them when it is a member, in ascending
\* order; getCompletedBy("") is toArray().
C17_CompletedBy ==
    Returned("getCompletedBy") =>
        LET x == last.s
            a == last.answer.ret
        IN  /\ ~last.answer.err
            /\ Range(a) = {t \in Members(This) : EndsWith(t, x)}
            /\ Ascending(a)
            /\ x = <<>> => a = toArray(This)

\* The strings completed by a member of one code are that member and a
\* longer one that does not start with it; another member of two codes
\* starts with it and does not end with it.
C17_Witness ==
    /\ Answered("getCompletedBy")
    /\ Len(last.s) = 1 /\ last.s \in Range(last.answer.ret)
    /\ \E t \in Range(last.answer.ret) : Len(t) = 2 /\ t[1] # last.s[1]
    /\ \E t \in Members(This) :
           Len(t) = 2 /\ t[1] = last.s[1] /\ t \notin Range(last.answer.ret)

\* The don't-care code of a getPartialMatchesOf call
DontCareOf(call) == IF call.dc = Null THEN Dot ELSE call.dc[1]

\* C18: for every pattern p and don't-care code c, getPartialMatchesOf
\* returns exactly the members of the length of p that agree with p at
\* every index where p does not hold c, in ascending order; for the empty
\* pattern the result is [""] if the empty string is a member and [] if
\* not.
C18_PartialMatches ==
    (Returned("getPartialMatchesOf") /\ last.dc # <<>>) =>
        LET p == last.s
            c == DontCareOf(last)
            a == last.answer.ret
        IN  /\ ~last.answer.err
            /\ Range(a) = {t \in Members(This) :
                               /\ Len(t) = Len(p)
                               /\ \A k \in 1..Len(p) : p[k] # c => t[k] = p[k]}
            /\ Ascending(a)
            /\ p = <<>> => a = (IF _hasEmpty THEN << <<>> >> ELSE <<>>)

\* A pattern of the don't-care code and an input code matched two members
\* with different first codes, and not a member of one code.
C18_Witness ==
    /\ Answered("getPartialMatchesOf") /\ last.dc = Null
    /\ Len(last.s) = 2 /\ last.s[1] = Dot /\ last.s[2] # Dot
    /\ Len(last.answer.ret) = 2
    /\ \E t \in Members(This) : Len(t) = 1 /\ t \notin Range(last.answer.ret)

\* C19: for every pattern p, getArrangementsOf(p) returns exactly the
\* members in which every code stands no more often than in p, in
\* ascending order, the empty string with them exactly when it is a
\* member; and when the walk returns the table of remaining counts holds
\* the counts it held when the walk started, which are those of p.
C19_Arrangements ==
    Returned("getArrangementsOf") =>
        LET p == last.s
            a == last.answer.ret
        IN  /\ ~last.answer.err
            /\ Range(a) = {t \in Members(This) :
                               \A c \in Chars : Occurrences(t, c) <= Occurrences(p, c)}
            /\ Ascending(a)
            /\ (<<>> \in Range(a)) <=> _hasEmpty
            /\ last.answer.table = last.answer.table0
            /\ DOMAIN last.answer.table0 = Range(p)
            /\ \A c \in Range(p) : last.answer.table0[c] = Occurrences(p, c)

\* The arrangements of a pattern of two different codes are a member that
\* holds them in the other order and a member of one code, and not a member
\* that holds one code twice.
C19_Witness ==
    /\ Answered("getArrangementsOf")
    /\ Len(last.s) = 2 /\ last.s[1] # last.s[2]
    /\ <<last.s[2], last.s[1]>> \in Range(last.answer.ret)
    /\ \E t \in Range(last.answer.ret) : Len(t) = 1
    /\ \E t \in Members(This) : Len(t) = 2 /\ t[1] = t[2]

(***************************************************************************)
(* Two objects: a set and the set the constructor made from it.            *)
(***************************************************************************)
\* new TernaryStringSet(this)
Copy ==
    /\ pc = "ready"
    /\ ~other.made
    /\ pc' = "returned"
    /\ pre' = This
    /\ last' = [NoCall EXCEPT !.op = "copy"]
    /\ other' = [made |-> TRUE, set |-> NewFromSet(This).set,
                 shared |-> NewFromSet(This).shared, calls |-> 0]
    /\ UNCHANGED <<_tree, _hasEmpty, _compact, _size, members>>

\* The methods called on the two objects
CopyOps == {"add", "delete", "compact", "balance", "clear"}

\* Method op called on object X with string s (for add and delete)
Apply(op, X, s) ==
    CASE op = "add" -> add(X, s)
      [] op = "delete" -> delete(X, s)
      [] op = "compact" -> compact(X)
      [] op = "balance" -> balance(X)
      [] op = "clear" -> Result(clear, FALSE, FALSE)

\* After the call that handed back r, the tree array of X is the array
\* object it was before (written in place or left alone), not a new one:
\* decompact, balance and clear assign a new array, and compact does when
\* a pass made the array shorter.
KeepsArray(op, X, s, r) ==
    CASE op = "add" -> s = Null \/ Len(s) = 0 \/ ~(X.compact /\ ~has(X, s))
      [] op = "delete" -> s = Null \/ Len(s) = 0 \/ ~(X.compact /\ has(X, s))
      [] op = "compact" -> X.compact \/ Len(X.tree) = 0
                           \/ Len(r.set.tree) = Len(X.tree)
      [] op = "balance" -> FALSE
      [] op = "clear" -> FALSE

\* What object Y is after a call on X that handed back r: an array that
\* the two share and that was written in place is the array of Y too.
Untouched(Y, r, sharedAfter) ==
    IF sharedAfter THEN [Y EXCEPT !.tree = r.set.tree] ELSE Y

\* A call of op on X ("source": this object, "copy": the other) that
\* hands back r and leaves the object it was not made on as Y2
CopyCall(on, op, s, Y, r, sharedAfter) ==
    /\ pc = "ready"
    /\ other.made
    /\ other.calls < MaxCopyCalls
    /\ Len(r.set.tree) <= 4 * MaxNodes
    /\ pc' = "returned"
    /\ _tree' = IF on = "source" THEN r.set.tree ELSE Untouched(Y, r, sharedAfter).tree
    /\ _hasEmpty' = IF on = "source" THEN r.set.hasEmpty ELSE Y.hasEmpty
    /\ _compact' = IF on = "source" THEN r.set.compact ELSE Y.compact
    /\ _size' = IF on = "source" THEN r.set.size ELSE Y.size
    /\ other' = [made |-> TRUE,
                 set |-> IF on = "source" THEN Untouched(Y, r, sharedAfter) ELSE r.set,
                 shared |-> sharedAfter,
                 calls |-> other.calls + 1]
    /\ pre' = IF on = "source" THEN This ELSE other.set
    /\ last' = [op |-> op, on |-> on, s |-> s, untouched |-> Y, err |-> r.err]
    /\ members' = IF on = "source" THEN Members(r.set) ELSE members

CallOnSource ==
    \E op \in CopyOps :
        \E s \in IF op \in {"add", "delete"} THEN Strings ELSE {<<>>} :
            CopyCall("source", op, s, other.set, Apply(op, This, s),
                     other.shared /\ KeepsArray(op, This, s, Apply(op, This, s)))

CallOnCopy ==
    \E op \in CopyOps :
        \E s \in IF op \in {"add", "delete"} THEN Strings ELSE {<<>>} :
            CopyCall("copy", op, s, This, Apply(op, other.set, s),
                     other.shared /\ KeepsArray(op, other.set, s, Apply(op, other.set, s)))

\* The set is built by calls on one object; then the second is made from
\* it, and calls are made on the two.
NextCopy ==
    \/ ~other.made /\ (Add \/ Delete \/ Compact \/ Balance \/ Clear)
    \/ Resume
    \/ Copy
    \/ CallOnSource
    \/ CallOnCopy

SpecCopy == Init /\ [][NextCopy]_vars

\* The object the last call on the two was not made on
UntouchedNow == IF last.on = "source" THEN other.set ELSE This

\* C20: the set made by new TernaryStringSet(source) has the toArray(),
\* size and compacted flag of the source, compacted or not; and a call of
\* add, delete, compact, balance or clear on one of the two leaves
\* toArray(), size and the tree array of the other as they were.
C20_CopyIndependent ==
    /\ Returned("copy") =>
           /\ toArray(other.set) = toArray(This)
           /\ other.set.size = _size
           /\ other.set.compact = _compact
    /\ (pc = "returned" /\ other.calls > 0) =>
           /\ UntouchedNow.tree = last.untouched.tree
           /\ UntouchedNow.size = last.untouched.size
           /\ toArray(UntouchedNow) = toArray(last.untouched)

\* A new string of two codes was added to the copy of a set of two members
\* that is not compacted; the copy holds it and the source does not.
C20_Witness ==
    /\ pc = "returned" /\ other.calls > 0
    /\ last.on = "copy" /\ last.op = "add" /\ Len(last.s) = 2
    /\ ~_compact /\ _size >= 2
    /\ has(other.set, last.s) /\ ~has(This, last.s)
    /\ other.set.size = _size + 1

(***************************************************************************)
(* Statistics: the stats getter walks the tree from the root and counts    *)
(* the nodes of each level in breadth; depth is the length of breadth.     *)
(***************************************************************************)
\* The body of traverse for one node of code cp at level d, before the
\* three recursive calls; st is the _stats record so far.
Visit(st, d, cp) ==
    [st EXCEPT
        !.breadth = IF Len(@) <= d THEN Append(@, 1) ELSE [@ EXCEPT ![d + 1] = @ + 1],
        !.surrogates = IF cp >= CP_MIN_SURROGATE THEN @ + 1 ELSE @,
        !.maxCodePoint = IF cp > @ THEN cp ELSE @,
        !.minCodePoint = IF cp < @ THEN cp ELSE @]

RECURSIVE traverse(_, _, _, _)
traverse(tree, n, d, st) ==
    IF n >= Len(tree) THEN st
    ELSE traverse(tree, At(tree, n + 3), d + 1,
             traverse(tree, At(tree, n + 2), d + 1,
                 traverse(tree, At(tree, n + 1), d + 1,
                     Visit(st, d, MaskCp(At(tree, n))))))

\* this._stats.depth = this._stats.breadth.length
SetDepth(st) == [st EXCEPT !.depth = Len(st.breadth)]

\* updateStats(): the _stats record it leaves
updateStats(S) ==
    SetDepth(traverse(S.tree, 0, 0,
                      [breadth |-> <<>>, nodes |-> Len(S.tree) \div 4,
                       surrogates |-> 0,
                       minCodePoint |-> IF Len(S.tree) \div 4 > 0 THEN 69631 ELSE 0,
                       maxCodePoint |-> 0, size |-> S.size, compact |-> S.compact,
                       depth |-> 0]))

\* get stats()
stats(S) == updateStats(S)

(***************************************************************************)
(* Bulk insertion into a set that holds no string, and the statistics of   *)
(* the tree it makes.  A set holds no string when it is new or cleared,    *)
(* and also when every string added to it was deleted: its tree array then *)
(* still has the nodes of the deleted strings.                             *)
(***************************************************************************)
\* The code units of the strings inserted in bulk
BulkChars == 97..(96 + NumBulkChars)

\* The strings inserted in bulk: up to MaxLen codes each
BulkStrings == UNION {[1..n -> BulkChars] : n \in 0..MaxLen}

\* The sorted arrays of distinct strings, as Array.prototype.sort() leaves
\* them: ascending in the order of code units
SortedArrays ==
    {q \in UNION {[1..n -> BulkStrings] : n \in 0..MaxBulk} : Ascending(q)}

\* set.addAll(strings) on a set that holds no string, for a sorted array
AddAllSorted ==
    \E strings \in SortedArrays :
        /\ _size = 0
        /\ Call("addAll", <<>>, strings, 0, <<>>, addAll(This, strings, 0, <<>>),
                Range(strings))

\* set.stats.depth, read by the caller that made the last call
GetStats ==
    /\ pc = "returned"
    /\ last.op \in {"new", "addAll", "clear"}
    /\ last' = [last EXCEPT !.op = "stats", !.ret = stats(This).depth]
    /\ UNCHANGED <<_tree, _hasEmpty, _compact, _size, pc, pre, members, other>>

NextBulk ==
    \/ Add
    \/ Delete
    \/ AddAllSorted
    \/ GetStats
    \/ Clear
    \/ Resume

SpecBulk == Init /\ [][NextBulk]_vars

\* The least k with 2^k >= m, for m >= 1: the ceiling of log2(m)
CeilLog2(m) == CHOOSE k \in 0..m : 2 ^ k >= m /\ \A j \in 0..(k - 1) : 2 ^ j < m

\* stats.depth was read after addAll of a sorted array into an empty set,
\* that is a set of size 0, whatever its tree array holds
BulkDepthRead ==
    /\ Returned("stats")
    /\ pre.size = 0
    /\ last.strings \in SortedArrays
    /\ ~last.err

\* Every string of the array has exactly one code unit
OneCodeEach(strings) == \A k \in 1..Len(strings) : Len(strings[k]) = 1

\* C21, as claimed: after a sorted ascending array of n distinct strings is
\* inserted with addAll into an empty set, stats.depth is ceil(log2(n + 1)).
C21_BulkDepth ==
    BulkDepthRead => last.ret = CeilLog2(Len(last.strings) + 1)

\* C21, as amended: after a sorted ascending array of n distinct strings
\* of exactly one code unit each is inserted with addAll into an empty set
\* whose tree array has no nodes (a new or a cleared set), stats.depth is
\* ceil(log2(n + 1)): the tree then has one node for each string and no
\* equal link.  Into an empty set that still has the nodes of deleted
\* strings, stats.depth is ceil(log2(n + 1)) at least.
C21_BulkDepthOneCode ==
    (BulkDepthRead /\ OneCodeEach(last.strings)) =>
        /\ Len(pre.tree) = 0 => last.ret = CeilLog2(Len(last.strings) + 1)
        /\ last.ret >= CeilLog2(Len(last.strings) + 1)

\* Four strings of one code unit each were inserted in bulk into a set with
\* no nodes and the depth read is 3.
C21_Witness ==
    /\ BulkDepthRead
    /\ Len(pre.tree) = 0
    /\ Len(last.strings) = MaxBulk
    /\ OneCodeEach(last.strings)
    /\ last.ret = 3
    /\ _size = MaxBulk

(***************************************************************************)
(* Claims about compaction and the shape of the tree, on the calls of      *)
(* Spec.                                                                   *)
(***************************************************************************)
\* C22, as claimed: after compact() returns, compacted is true, for any
\* content, a set with no tree nodes included.
C22_CompactMarks ==
    Returned("compact") => _compact

\* C22, as amended: after compact() returns on a set with one node at
\* least, compacted is true; on a set with no tree nodes (a new set, or a
\* set holding only the empty string) compact() returns at once, changes
\* nothing and compacted stays false.
C22_CompactMarksNodes ==
    Returned("compact") =>
        /\ ~last.err
        /\ Len(pre.tree) > 0 => _compact
        /\ Len(pre.tree) = 0 => (~_compact /\ This = pre)

\* compact() returned on a set that holds the empty string and nothing
\* else: it is not marked as compacted.
C22_Witness ==
    /\ Returned("compact")
    /\ Len(pre.tree) = 0 /\ pre.hasEmpty /\ pre.size = 1
    /\ ~_compact /\ This = pre

(***************************************************************************)
(* Insertion under a node ceiling that is a parameter: the code of _add    *)
(* and add with NODE_CEILING replaced by ceiling, so that the capacity     *)
(* error can be reached with a small array.                                *)
(***************************************************************************)
RECURSIVE _addCapped(_, _, _, _, _, _, _)
_addCapped(ceiling, tree0, size0, node0, s, i, c) ==
    LET fresh == node0 >= Len(tree0)
        node == IF fresh THEN Len(tree0) ELSE node0
    IN  IF fresh /\ node >= ceiling
        THEN [tree |-> tree0, size |-> size0, node |-> node, err |-> TRUE]
        ELSE
        LET tree == IF fresh THEN tree0 \o <<c, NUL, NUL, NUL>> ELSE tree0
            treeChar == MaskCp(At(tree, node))
        IN  IF c < treeChar THEN
                LET r == _addCapped(ceiling, tree, size0, At(tree, node + 1), s, i, c)
                IN  IF r.err THEN r
                    ELSE [r EXCEPT !.tree = [r.tree EXCEPT ![node + 2] = r.node],
                                   !.node = node]
            ELSE IF c > treeChar THEN
                LET r == _addCapped(ceiling, tree, size0, At(tree, node + 3), s, i, c)
                IN  IF r.err THEN r
                    ELSE [r EXCEPT !.tree = [r.tree EXCEPT ![node + 4] = r.node],
                                   !.node = node]
            ELSE
                LET i2 == i + (IF c >= CP_MIN_SURROGATE THEN 2 ELSE 1)
                IN  IF i2 >= Len(s) THEN
                        IF ~HasEos(At(tree, node))
                        THEN [tree |-> [tree EXCEPT ![node + 1] = SetEos(@)],
                              size |-> size0 + 1, node |-> node, err |-> FALSE]
                        ELSE [tree |-> tree, size |-> size0, node |-> node, err |-> FALSE]
                    ELSE
                        LET r == _addCapped(ceiling, tree, size0, At(tree, node + 2),
                                            s, i2, charCodeAt(s, i2))
                        IN  IF r.err THEN r
                            ELSE [r EXCEPT !.tree = [r.tree EXCEPT ![node + 3] = r.node],
                                           !.node = node]

\* this._add(0, s, 0, s.charCodeAt(0)) on object D, under the ceiling
AddCappedFromRoot(ceiling, D, s) ==
    LET r == _addCapped(ceiling, D.tree, D.size, 0, s, 0, charCodeAt(s, 0))
    IN  Result([D EXCEPT !.tree = r.tree, !.size = r.size], FALSE, r.err)

\* The same statement after the conditional decompact() that handed back d
AddCappedAfter(ceiling, d, s) ==
    IF d.err THEN d ELSE AddCappedFromRoot(ceiling, d.set, s)

\* add(s) under the ceiling
addCapped(ceiling, S, s) ==
    IF s = Null THEN Result(S, FALSE, TRUE)
    ELSE IF Len(s) = 0 THEN
        IF ~S.hasEmpty
        THEN Result([S EXCEPT !.hasEmpty = TRUE, !.size = @ + 1], FALSE, FALSE)
        ELSE Result(S, FALSE, FALSE)
    ELSE AddCappedAfter(ceiling,
                        IF S.compact /\ ~has(S, s) THEN decompact(S)
                        ELSE Result(S, FALSE, FALSE), s)

\* A node ceiling that the longest input string alone overruns: room for
\* one node less than that string needs
SmallCeiling == 4 * (MaxCapLen - 1)

\* The strings added under the ceiling: up to MaxCapLen codes
CapStrings == UNION {[1..n -> Chars] : n \in 0..MaxCapLen}

AddCapped ==
    \E s \in CapStrings :
        Call("add", s, <<>>, 0, <<>>, addCapped(SmallCeiling, This, s),
             IF addCapped(SmallCeiling, This, s).err THEN members
             ELSE members \cup {s})

NextCap ==
    \/ AddCapped
    \/ Delete
    \/ Clear
    \/ Resume

SpecCap == Init /\ [][NextCap]_vars

\* The indices of the node blocks reached from block n by following the
\* less, equal and greater pointers, n included
RECURSIVE ReachableFrom(_, _)
ReachableFrom(tree, n) ==
    IF n >= Len(tree) THEN {}
    ELSE {n} \cup ReachableFrom(tree, At(tree, n + 1))
             \cup ReachableFrom(tree, At(tree, n + 2))
             \cup ReachableFrom(tree, At(tree, n + 3))

\* The indices of the node blocks the last call appended to the array
Appended == {n \in 0..(Len(_tree) - 1) : n % 4 = 0 /\ n >= Len(pre.tree)}

\* add(s) failed for want of room: it threw, and not for a null string
CapacityError == Returned("add") /\ last.err /\ last.s # Null

\* C23: when add(s) fails because the index of a node it must create would
\* reach the ceiling, has(t) for every t, toArray() and size are the same
\* as before the call, and no node block appended during the failed call
\* is reachable from the root.
C23_CapacityKeepsState ==
    CapacityError =>
        /\ \A t \in CapStrings : has(This, t) = has(pre, t)
        /\ toArray(This) = toArray(pre)
        /\ _size = pre.size
        /\ Appended \cap ReachableFrom(_tree, 0) = {}

\* What does hold after the capacity error: the contents and the size are
\* as before, and no pointer of any block leads to an appended block.
CapacityKeepsContents ==
    CapacityError =>
        /\ \A t \in CapStrings : has(This, t) = has(pre, t)
        /\ toArray(This) = toArray(pre)
        /\ _size = pre.size
        /\ \A n \in 0..(Len(_tree) - 1) : n % 4 # 0 => At(_tree, n) \notin Appended

\* A failed add left blocks in the array on a set that had a node before.
CapacityErrorAppended ==
    CapacityError /\ Len(pre.tree) > 0 /\ Len(_tree) > Len(pre.tree)

(***************************************************************************)
(* The distance searches with distances that are not small integers.       *)
(***************************************************************************)
\* Distances the searches refuse: -1, -0.5, -Infinity and NaN
BadDistances == {Num(-2), Num(-1), NegInfinity, NaN}

\* Distances with a fraction, and Infinity
FractionalDistances == {Num(2 * d + 1) : d \in 0..MaxDist}

\* Every distance tried: those above and the integers 0, 1, ...
AnyDistances ==
    BadDistances \cup FractionalDistances \cup {Infinity}
        \cup {Num(2 * d) : d \in 0..(MaxLen + 1)}

EditAnyDistance ==
    \E s \in Strings \cup {Null} :
        \E dist \in AnyDistances :
            Query("getWithinEditDistanceOf", s, dist, Null,
                  getWithinEditDistanceOf(This, s, dist))

HammingAnyDistance ==
    \E s \in Strings \cup {Null} :
        \E dist \in AnyDistances :
            Query("getWithinHammingDistanceOf", s, dist, Null,
                  getWithinHammingDistanceOf(This, s, dist))

NextDist ==
    \/ Add
    \/ Delete
    \/ Compact
    \/ Balance
    \/ Clear
    \/ Resume
    \/ EditAnyDistance
    \/ HammingAnyDistance

SpecDist == Init /\ [][NextDist]_vars

\* The search op with pattern s and distance dist on the object as it is
Search(op, s, dist) ==
    IF op = "getWithinEditDistanceOf" THEN getWithinEditDistanceOf(This, s, dist)
    ELSE getWithinHammingDistanceOf(This, s, dist)

\* A distance search has returned or thrown
Searched ==
    /\ pc = "returned"
    /\ last.op \in {"getWithinEditDistanceOf", "getWithinHammingDistanceOf"}

\* The greatest length among the pattern and the input strings in the set
LongestInvolved ==
    CHOOSE n \in 0..MaxLen :
        /\ Len(last.s) <= n /\ \A t \in Members(This) : Len(t) <= n
        /\ Len(last.s) = n \/ \E t \in Members(This) : Len(t) = n

\* C24: getWithinEditDistanceOf and getWithinHammingDistanceOf throw for a
\* negative distance and for NaN, after the check for a null pattern (a
\* null pattern throws 'Null pattern.' whatever the distance) and before
\* any search (nothing is returned and the set is as it was); a fractional
\* distance gives the answer of its integer part (0.5 that of 0); Infinity
\* gives the answer of every integer distance that is at least the length
\* of the pattern and of every member.
C24_Distances ==
    Searched =>
        /\ This = pre
        /\ last.s = Null => (last.answer.err /\ last.answer.msg = "Null pattern.")
        /\ (last.s # Null /\ last.dist = NaN) =>
               (last.answer.err /\ last.answer.msg = "Distance is not a number.")
        /\ (last.s # Null /\ last.dist \in BadDistances \ {NaN}) =>
               (last.answer.err /\ last.answer.msg = "Distance must be non-negative.")
        /\ (last.s # Null /\ last.dist \in FractionalDistances) =>
               /\ ~last.answer.err
               /\ last.answer = Search(last.op, last.s, Num(last.dist.twice - 1))
        /\ (last.s # Null /\ last.dist = Infinity) =>
               /\ ~last.answer.err
               /\ \A d \in LongestInvolved..(MaxLen + 1) :
                      last.answer = Search(last.op, last.s, Num(2 * d))

\* The edit-distance search with Infinity for a pattern of two codes that
\* is no member returned the two members the set holds.
C24_Witness ==
    /\ Searched /\ last.op = "getWithinEditDistanceOf"
    /\ last.dist = Infinity /\ last.s # Null /\ Len(last.s) = 2
    /\ ~has(This, last.s)
    /\ ~last.answer.err /\ Len(last.answer.ret) = 2 /\ _size = 2

\* The indices of the node blocks of an array
Blocks(tree) == {n \in 0..(Len(tree) - 1) : n % 4 = 0}

\* The indices of the array that hold the child pointers of its blocks
PointerSlots(tree) == {n \in 0..(Len(tree) - 1) : n % 4 # 0}

\* No block of the array is the target of two child pointers
Unshared(tree) ==
    \A b \in Blocks(tree) :
        Cardinality({k \in PointerSlots(tree) : At(tree, k) = b}) <= 1

\* C25: a shared tree is never written.  Whenever compacted is false, no
\* node block is referenced by more than one child pointer; a call of add,
\* addAll, delete or deleteAll that changed an element of the tree array
\* ends with compacted false, the tree it wrote being unshared; and while
\* compacted stays true such a call, add("") and delete("") included,
\* leaves every element of the tree array as it was.
C25_SharedNeverWritten ==
    /\ ~_compact => Unshared(_tree)
    /\ (pc = "returned" /\ last.op \in {"add", "addAll", "delete", "deleteAll"}) =>
           /\ _tree # pre.tree => (~_compact /\ Unshared(_tree))
           /\ (pre.compact /\ _compact) => _tree = pre.tree
           /\ (pre.compact /\ last.op \in {"add", "delete"} /\ last.s = <<>>) =>
                  (_compact /\ _tree = pre.tree)

\* A new string was added to a compacted set in which two pointers led to
\* one block: the tree was rebuilt and is no longer shared.
C25_Witness ==
    /\ Returned("add") /\ ~last.err
    /\ pre.compact /\ ~Unshared(pre.tree)
    /\ ~has(pre, last.s) /\ has(This, last.s)
    /\ ~_compact /\ Unshared(_tree) /\ _tree # pre.tree

(***************************************************************************)
(* Compaction of deeper trees: strings of up to MaxDeepLen codes in up to  *)
(* MaxDeepNodes blocks, so that a pass can leave equal blocks for the next *)
(* pass to merge.                                                          *)
(***************************************************************************)
\* The strings of those sets
DeepStrings == UNION {[1..n -> Chars] : n \in 0..MaxDeepLen}

\* A call of method op with string s that hands back r; m is the member
\* set it should leave.  Calls that would grow the array past MaxDeepNodes
\* blocks are left out.
CallDeep(op, s, r, m) ==
    /\ pc = "ready"
    /\ Len(r.set.tree) <= 4 * MaxDeepNodes
    /\ pc' = "returned"
    /\ _tree' = r.set.tree
    /\ _hasEmpty' = r.set.hasEmpty
    /\ _compact' = r.set.compact
    /\ _size' = r.set.size
    /\ pre' = This
    /\ last' = [op |-> op, s |-> s, strings |-> <<>>, start |-> 0,
                end |-> <<>>, ret |-> r.ret, err |-> r.err]
    /\ members' = m
    /\ UNCHANGED other

AddDeep ==
    \E s \in DeepStrings : CallDeep("add", s, add(This, s), members \cup {s})

DeleteDeep ==
    \E s \in DeepStrings : CallDeep("delete", s, delete(This, s), members \ {s})

CompactDeep == CallDeep("compact", <<>>, compact(This), members)

BalanceDeep == CallDeep("balance", <<>>, balance(This), members)

NextDeep ==
    \/ AddDeep
    \/ DeleteDeep
    \/ CompactDeep
    \/ BalanceDeep
    \/ Clear
    \/ Resume

SpecDeep == Init /\ [][NextDeep]_vars

\* The arrays compact() goes through on the way from source: source, and
\* the array each pass that shrank it handed back
RECURSIVE PassTrace(_)
PassTrace(source) ==
    IF compactionPass(source).err
           \/ Len(compactionPass(source).tree) = Len(source)
    THEN <<source>>
    ELSE <<source>> \o PassTrace(compactionPass(source).tree)

\* The four values of every block of the array differ from those of every
\* other block
AllBlocksDiffer(tree) ==
    \A a, b \in Blocks(tree) : a # b => NodeKey(tree, a) # NodeKey(tree, b)

\* C26: after compact() on a set with at least one node, the tree array is
\* a fixed point of the compaction pass (a pass hands it back as it is), no
\* two node blocks have the same four values, the number of node blocks is
\* not larger than before, and the root is still the block at index 0: it
\* has the value the root had, and the strings found from it are the same.
C26_CompactFixedPoint ==
    (Returned("compact") /\ Len(pre.tree) > 0) =>
        /\ ~last.err /\ _compact
        /\ compactionPass(_tree) = [tree |-> _tree, err |-> FALSE]
        /\ AllBlocksDiffer(_tree)
        /\ Len(_tree) <= Len(pre.tree)
        /\ Len(_tree) > 0 /\ At(_tree, 0) = At(pre.tree, 0)
        /\ toArray(This) = toArray(pre)

\* compact() returned after two passes that both shrank the array.
C26_Witness ==
    /\ Returned("compact") /\ ~pre.compact /\ ~last.err
    /\ Len(PassTrace(pre.tree)) = 3
    /\ Len(_tree) = Len(pre.tree) - 8

\* C27: for every tree reached by add, delete, balance and earlier
\* compactions, compact() ends and does not throw the assertion error: a
\* call made in any state comes to an end with an array for the tree, and
\* when it has returned no pass found a slot other than the
\* length of its output for a node seen for the first time, every pass but
\* the last hands back a strictly shorter array, and _tree is an array, not
\* null, when compact() has returned.
C27_CompactEnds ==
    /\ pc = "ready" => (~compact(This).err /\ compact(This).set.tree # Null)
    /\ Returned("compact") =>
           /\ ~last.err
           /\ _tree # Null
           /\ \A k \in 1..Len(PassTrace(pre.tree)) :
                  /\ ~compactionPass(PassTrace(pre.tree)[k]).err
                  /\ k > 1 => Len(PassTrace(pre.tree)[k]) < Len(PassTrace(pre.tree)[k - 1])
           /\ ~pre.compact =>
                  _tree = PassTrace(pre.tree)[Len(PassTrace(pre.tree))]

\* compact() returned for a tree in which delete had left a leaf without
\* its flag, after a pass that shrank the array.
C27_Witness ==
    /\ Returned("compact") /\ ~pre.compact /\ ~last.err
    /\ DeadLeaf(pre.tree)
    /\ Len(PassTrace(pre.tree)) >= 2
    /\ _tree # Null /\ Len(_tree) < Len(pre.tree)

\* The index of the block at which string s ends when it is looked up
\* from block node with s[i] next, or NUL when the walk leaves the tree
RECURSIVE EndBlock(_, _, _, _)
EndBlock(tree, node, s, i) ==
    IF node >= Len(tree) THEN NUL
    ELSE IF s[i] < MaskCp(At(tree, node)) THEN EndBlock(tree, At(tree, node + 1), s, i)
    ELSE IF s[i] > MaskCp(At(tree, node)) THEN EndBlock(tree, At(tree, node + 3), s, i)
    ELSE IF i = Len(s) THEN node
    ELSE EndBlock(tree, At(tree, node + 2), s, i + 1)

\* The indices at which two arrays of one length differ
Changed(a, b) == {k \in 0..(Len(a) - 1) : At(a, k) # At(b, k)}

\* C28: on a set that is not compacted, delete(s) removes and relinks no
\* node: the tree array keeps its length, all its child pointers and all
\* its codes, and the only element that can change is the value of the one
\* block at which s ends, which loses its end-of-string bit; delete of a
\* string that is no member changes nothing at all.  Under add and delete
\* on a set that is not compacted the number of node blocks never falls.
C28_DeleteKeepsNodes ==
    /\ (Returned("delete") /\ ~pre.compact /\ last.s # Null) =>
           /\ Len(_tree) = Len(pre.tree)
           /\ \A k \in PointerSlots(_tree) : At(_tree, k) = At(pre.tree, k)
           /\ \A b \in Blocks(_tree) : MaskCp(At(_tree, b)) = MaskCp(At(pre.tree, b))
           /\ (has(pre, last.s) /\ Len(last.s) > 0) =>
                  /\ Changed(_tree, pre.tree) = {EndBlock(pre.tree, 0, last.s, 1)}
                  /\ HasEos(At(pre.tree, EndBlock(pre.tree, 0, last.s, 1)))
                  /\ ~HasEos(At(_tree, EndBlock(pre.tree, 0, last.s, 1)))
           /\ (has(pre, last.s) /\ Len(last.s) = 0) => _tree = pre.tree
           /\ ~has(pre, last.s) => (This = pre /\ last.ret = FALSE)
    /\ (pc = "returned" /\ last.op \in {"add", "delete"} /\ ~pre.compact) =>
           Len(_tree) >= Len(pre.tree)

\* delete took a member of two codes out of a set that is not compacted
\* and holds another string with the same first code: the array has the
\* length it had and a block without flag is left in it.
C28_Witness ==
    /\ Returned("delete") /\ ~pre.compact /\ last.ret = TRUE
    /\ Len(last.s) = 2 /\ has(pre, last.s) /\ ~has(This, last.s)
    /\ has(This, <<last.s[1]>>)
    /\ Len(_tree) = Len(pre.tree) /\ Len(_tree) >= 12
    /\ Cardinality(Changed(_tree, pre.tree)) = 1

(***************************************************************************)
(* Sets over more codes, so that one sibling level can hold a search tree  *)
(* of more than two nodes.                                                 *)
(***************************************************************************)
\* The code units of those sets
WideChars == 97..(96 + NumWideChars)

\* Their strings: up to MaxLen codes each
WideStrings == UNION {[1..n -> WideChars] : n \in 0..MaxLen}

AddWide ==
    \E s \in WideStrings : Call("add", s, <<>>, 0, <<>>, add(This, s), members \cup {s})

DeleteWide ==
    \E s \in WideStrings :
        Call("delete", s, <<>>, 0, <<>>, delete(This, s), members \ {s})

NextWide ==
    \/ AddWide
    \/ DeleteWide
    \/ Compact
    \/ Balance
    \/ Clear
    \/ Resume

SpecWide == Init /\ [][NextWide]_vars

\* The blocks reached from block n by less and greater links only, n
\* included: the sibling level below n
RECURSIVE Siblings(_, _)
Siblings(tree, n) ==
    IF n >= Len(tree) THEN {}
    ELSE {n} \cup Siblings(tree, At(tree, n + 1)) \cup Siblings(tree, At(tree, n + 3))

\* C29: in every reachable state, compacted or not, the less and greater
\* links form a binary search tree at each level: for every node, every
\* node reached from its less child by less and greater links has a
\* strictly smaller code and every node reached from its greater child a
\* strictly larger one; so no two nodes of one sibling level hold the same
\* code.
C29_SiblingsOrdered ==
    /\ \A b \in Blocks(_tree) :
           /\ \A x \in Siblings(_tree, At(_tree, b + 1)) :
                  MaskCp(At(_tree, x)) < MaskCp(At(_tree, b))
           /\ \A x \in Siblings(_tree, At(_tree, b + 3)) :
                  MaskCp(At(_tree, x)) > MaskCp(At(_tree, b))
    /\ \A b \in Blocks(_tree) :
           \A x, y \in Siblings(_tree, b) :
               MaskCp(At(_tree, x)) = MaskCp(At(_tree, y)) => x = y

\* A compacted set whose root level is a search tree of three nodes, one
\* of them two links away from the root.
C29_Witness ==
    /\ _compact /\ pc = "returned"
    /\ Cardinality(Siblings(_tree, 0)) = 3
    /\ \E x \in Siblings(_tree, 0) :
           /\ x # 0 /\ x # At(_tree, 1) /\ x # At(_tree, 3)
           /\ MaskCp(At(_tree, x)) # MaskCp(At(_tree, 0))

(***************************************************************************)
(* The nodes the Hamming-distance walk visits.                             *)
(***************************************************************************)
\* The calls of _getWithinHammingDistanceOf that get past its first test
\* (a node that is there, a distance that is not negative), in the order
\* they are made: for each, the prefix with the code of its node appended.
\* The code is that of _getWithinHammingDistanceOf, with the visits handed
\* back in place of the matches.
RECURSIVE HammingVisits(_, _, _, _, _, _)
HammingVisits(tree, node, pat, i, dist, prefix) ==
    IF node >= Len(tree) \/ dist < 0 THEN <<>>
    ELSE LET cp == charCodeAtOrNaN(pat, i)
             treeCp == MaskCp(At(tree, node))
             p == Append(prefix, treeCp)
             i_ == i + (IF CodeAtLeast(cp, CP_MIN_SURROGATE) THEN 2 ELSE 1)
             dist_ == dist - (IF CodeEqual(cp, treeCp) THEN 0 ELSE 1)
         IN  <<p>>
             \o (IF CodeLess(cp, treeCp) \/ dist > 0
                 THEN HammingVisits(tree, At(tree, node + 1), pat, i, dist, prefix)
                 ELSE <<>>)
             \o (IF HasEos(At(tree, node)) /\ Len(pat) = Len(p)
                 THEN <<>>
                 ELSE HammingVisits(tree, At(tree, node + 2), pat, i_, dist_, p))
             \o (IF CodeLess(treeCp, cp) \/ dist > 0
                 THEN HammingVisits(tree, At(tree, node + 3), pat, i, dist, prefix)
                 ELSE <<>>)

\* The answer a of a search, with the visits v of its walk
WithVisits(a, v) == [ret |-> a.ret, err |-> a.err, visits |-> v]

\* The patterns and distances that take getWithinHammingDistanceOf to the
\* walk: 1 <= distance < pattern.length
WalkInputs ==
    {q \in DeepStrings \X (1..MaxDist) : q[2] < Len(q[1])}

AddLong ==
    \E s \in DeepStrings :
        Call("add", s, <<>>, 0, <<>>, add(This, s), members \cup {s})

DeleteLong ==
    \E s \in DeepStrings :
        Call("delete", s, <<>>, 0, <<>>, delete(This, s), members \ {s})

HammingWalk ==
    \E q \in WalkInputs :
        Query("getWithinHammingDistanceOf", q[1], Num(2 * q[2]), Null,
              WithVisits(getWithinHammingDistanceOf(This, q[1], Num(2 * q[2])),
                         HammingVisits(_tree, 0, q[1], 0, q[2], <<>>)))

NextWalk ==
    \/ AddLong
    \/ DeleteLong
    \/ Compact
    \/ Clear
    \/ Resume
    \/ HammingWalk

SpecWalk == Init /\ [][NextWalk]_vars

\* C30: in the Hamming-distance walk (1 <= d < length(p)) a branch is cut
\* as soon as the prefix is longer than the pattern: the walk visits no
\* node whose prefix, the code of that node included, has more codes than
\* p.
C30_WalkCutsLongPrefixes ==
    Returned("getWithinHammingDistanceOf") =>
        \A k \in 1..Len(last.answer.visits) :
            Len(last.answer.visits[k]) <= Len(last.s)

\* What does hold of the walk: the strings it hands back are the members of
\* the length of p that differ from p at d indices at most, and a node it
\* visits has at most d codes more than p.
WalkAnswersRight ==
    Returned("getWithinHammingDistanceOf") =>
        /\ ~last.answer.err
        /\ Range(last.answer.ret) =
               {t \in DeepStrings : /\ has(This, t) /\ Len(t) = Len(last.s)
                                    /\ Differences(t, last.s) <= IntOf(last.dist)}
        /\ \A k \in 1..Len(last.answer.visits) :
               Len(last.answer.visits[k]) <= Len(last.s) + IntOf(last.dist)

====
